---- MODULE Spec2Model ----
(***************************************************************************)
(* Two-player turn-based Minesweeper server: the per-room game engine      *)
(* (GameEngine), the room entry of the registry (roomManager) and the      *)
(* Socket.IO event handlers (socketHandler) that drive them.               *)
(*                                                                         *)
(* One room is modelled.  It has been created by connection "h" (the       *)
(* host); its settings are drawn from small sets in Init.  Every handler   *)
(* is one action; the messages a handler emits are kept, in order, in      *)
(* `sent` until the next handler runs.                                     *)
(***************************************************************************)
EXTENDS Integers, Sequences, FiniteSets, Bags, TLC

\* ------------------------------------------------------------------------
\* Bounds of the model
\* ------------------------------------------------------------------------
\* Largest settings.gridSize a room is created with (2..MaxGridSize).
MaxGridSize == 3
\* Largest settings.minesCount a room is created with (1..MaxMines).
MaxMines == 1
\* settings.turnTimeLimit of the room, in seconds.
TurnLimit == 2
\* Number of games started in the room (startGame calls).
MaxGames == 2
\* Number of tickers of replaced engines that may be alive at once.
MaxLeaked == 1
\* Number of members of the room's spectator set.
MaxSpectators == 1

\* The number of journal calls of a behaviour of SpecJournal.
MaxCalls == 4
\* The clock advances by ClockStep milliseconds at a time, MaxClockSteps
\* times in a behaviour.
ClockStep == 1000
MaxClockSteps == 3
\* CONFIG.ROOM_IDLE_TIMEOUT of the model, in milliseconds.
IdleTimeout == 2000

\* The least time between two chat messages of a connection, in
\* milliseconds.
DANMAKU_COOLDOWN_MS == 2000

\* ------------------------------------------------------------------------
\* Program constants
\* ------------------------------------------------------------------------
MIN_REVEALS_TO_PASS == 1

\* JavaScript null / undefined for string-valued fields.
Null == "null"
\* JavaScript null for engine.timeRemaining.
NullTime == 0 - 1

\* The connections (socket ids) of the model: "h" created the room, "g" and
\* "s" are two further connections.
Conns == {"h", "g", "s"}
\* The connections that issue join_room.
Joiners == {"g"}

\* The connections of the /admin namespace: "a" carries a valid token
\* (socket.isAuthenticated), "u" carries none.
Admins == {"a", "u"}

Authenticated == {"a"}

\* The connection that watches the room in SpecAdmin.
Watchers == {"s"}

Roles == {"host", "guest"}

Opp(player) == IF player = "host" THEN "guest" ELSE "host"

\* ------------------------------------------------------------------------
\* GameEngine: grid
\* ------------------------------------------------------------------------
Cells(n) == (0 .. n - 1) \X (0 .. n - 1)

InBounds(n, x, z) == x >= 0 /\ x < n /\ z >= 0 /\ z < n

\* The eight neighbour offsets in the order of the two nested loops
\* (dx = -1..1 outside, dz = -1..1 inside, (0,0) skipped).
NeighborOffsets ==
    << <<-1, -1>>, <<-1, 0>>, <<-1, 1>>, <<0, -1>>,
       <<0, 1>>, <<1, -1>>, <<1, 0>>, <<1, 1>> >>

EmptyTile == [isMine |-> FALSE, isRevealed |-> FALSE, neighborMines |-> 0]

\* new GameEngine(settings, onTimerUpdate, onTurnTimeout)
NewEngine(settings, startingPlayer) ==
    [ gridSize |-> settings.gridSize,
      minesCount |-> settings.minesCount,
      turnTimeLimit |-> settings.turnTimeLimit,
      grid |-> [c \in {} |-> EmptyTile],
      startingPlayer |-> startingPlayer,
      currentPlayer |-> startingPlayer,
      revealsThisTurn |-> 0,
      totalRevealed |-> 0,
      gameStatus |-> "waiting",
      winner |-> Null,
      lastPassedBy |-> Null,
      isFirstMove |-> TRUE,
      minesPlaced |-> FALSE,
      turnTimer |-> FALSE,
      timeRemaining |-> NullTime,
      scores |-> [host |-> 0, guest |-> 0] ]

\* The value of room.game before any game was started (null).
NoGame ==
    [ NewEngine([gridSize |-> 0, minesCount |-> 0, turnTimeLimit |-> 0], "host")
        EXCEPT !.gameStatus = "none" ]

\* generateGrid(): the engine after the call (the returned client grid is
\* getClientGrid of that engine).
generateGrid(e) ==
    [ e EXCEPT !.grid = [c \in Cells(e.gridSize) |-> EmptyTile],
               !.minesPlaced = FALSE,
               !.isFirstMove = TRUE,
               !.gameStatus = "playing",
               !.currentPlayer = e.startingPlayer,
               !.revealsThisTurn = 0,
               !.totalRevealed = 0 ]

\* A safe zone of the clicked tile alone.
safeZone_clickedOnly(n, safeX, safeZ) == { <<safeX, safeZ>> }

\* placeMines: the safe zone, the clicked tile's 3x3 block clipped to the grid.
safeZone(n, safeX, safeZ) ==
    { c \in Cells(n) : c[1] - safeX \in -1 .. 1 /\ c[2] - safeZ \in -1 .. 1 }

\* placeMines: the mine sets the while loop can end with.  Every draw is an
\* arbitrary cell; a draw inside the safe zone or on a mine is skipped, and
\* the loop ends when minesCount mines are placed or after 10*N*N draws.  Any
\* set of at most minesCount cells outside the safe zone is therefore a
\* possible outcome (the remaining draws may all be skipped ones), and no
\* other set is.
mineLayouts(n, minesCount, safeX, safeZ) ==
    { M \in SUBSET (Cells(n) \ safeZone(n, safeX, safeZ)) :
        Cardinality(M) <= minesCount }

\* countNeighborMines(x, z) on a grid whose mines are the set M.
countNeighborMines(n, M, x, z) ==
    Cardinality({ i \in 1 .. 8 :
        LET nx == x + NeighborOffsets[i][1]
            nz == z + NeighborOffsets[i][2]
        IN  InBounds(n, nx, nz) /\ <<nx, nz>> \in M })

\* placeMines(safeX, safeZ) with the draws ending in the mine set M.
placeMines(e, M) ==
    [ e EXCEPT
        !.grid = [ c \in Cells(e.gridSize) |->
                     IF c \in M
                       THEN [e.grid[c] EXCEPT !.isMine = TRUE]
                       ELSE [e.grid[c] EXCEPT !.neighborMines =
                               countNeighborMines(e.gridSize, M, c[1], c[2])] ],
        !.minesPlaced = TRUE ]

\* The record doReveal pushes for a tile.
TileRecord(grid, x, z) ==
    [ x |-> x, z |-> z,
      isMine |-> grid[<<x, z>>].isMine,
      neighborMines |-> grid[<<x, z>>].neighborMines ]

\* A flood that spreads from every non-mine tile, numbered ones included.
doRevealEnter_spreadsFromNumbered(st, x, z) ==
    IF st.grid[<<x, z>>].isRevealed
      THEN st
      ELSE [ grid |-> [st.grid EXCEPT ![<<x, z>>].isRevealed = TRUE],
             tiles |-> Append(st.tiles, TileRecord(st.grid, x, z)),
             stack |-> IF ~st.grid[<<x, z>>].isMine
                         THEN << <<x, z, 1>> >> \o st.stack
                         ELSE st.stack ]

\* doReveal(x, z): depth-first flood reveal.  The recursion of the source is
\* run with its call stack made explicit: `stack` holds, innermost call
\* first, the tile of each doReveal call that is inside its neighbour loop
\* and the index of the offset the loop is at.  `grid` is the grid so far and
\* `tiles` the records pushed so far, in the order of the pushes.
\*
\* doRevealEnter is the start of one call doReveal(x, z): return [] when the
\* tile is revealed; otherwise mark it, push its record and, for a non-mine
\* tile with neighborMines = 0, enter the neighbour loop.
doRevealEnter(st, x, z) ==
    IF st.grid[<<x, z>>].isRevealed
      THEN st
      ELSE [ grid |-> [st.grid EXCEPT ![<<x, z>>].isRevealed = TRUE],
             tiles |-> Append(st.tiles, TileRecord(st.grid, x, z)),
             stack |-> IF ~st.grid[<<x, z>>].isMine
                            /\ st.grid[<<x, z>>].neighborMines = 0
                         THEN << <<x, z, 1>> >> \o st.stack
                         ELSE st.stack ]

\* A neighbour loop that ends after the offsets with dx = -1 and dx = 0.
doRevealStep_leftHalf(n, st) ==
    LET x == Head(st.stack)[1]
        z == Head(st.stack)[2]
        i == Head(st.stack)[3]
    IN  IF i > 5
          THEN [st EXCEPT !.stack = Tail(st.stack)]
          ELSE LET nx == x + NeighborOffsets[i][1]
                   nz == z + NeighborOffsets[i][2]
                   advanced == [st EXCEPT !.stack[1][3] = i + 1]
               IN  IF InBounds(n, nx, nz)
                     THEN doRevealEnter(advanced, nx, nz)
                     ELSE advanced

\* One iteration of the neighbour loop of the innermost call.
doRevealStep(n, st) ==
    LET x == Head(st.stack)[1]
        z == Head(st.stack)[2]
        i == Head(st.stack)[3]
    IN  IF i > 8
          THEN [st EXCEPT !.stack = Tail(st.stack)]
          ELSE LET nx == x + NeighborOffsets[i][1]
                   nz == z + NeighborOffsets[i][2]
                   advanced == [st EXCEPT !.stack[1][3] = i + 1]
               IN  IF InBounds(n, nx, nz)
                     THEN doRevealEnter(advanced, nx, nz)
                     ELSE advanced

RECURSIVE doRevealRun(_, _)
doRevealRun(n, st) ==
    IF st.stack = <<>> THEN st ELSE doRevealRun(n, doRevealStep(n, st))

doReveal(n, grid, x, z) ==
    doRevealRun(n, doRevealEnter([grid |-> grid, tiles |-> <<>>, stack |-> <<>>],
                                 x, z))

\* getAllMines()
getAllMines(e) == { c \in DOMAIN e.grid : e.grid[c].isMine }

\* checkWinCondition().isWin
checkWinCondition(e) ==
    e.totalRevealed >= e.gridSize * e.gridSize - e.minesCount

\* ------------------------------------------------------------------------
\* GameEngine: timer.  turnTimer is TRUE while the setInterval ticker of the
\* engine is installed.  An engine operation returns the engine after the
\* call (eng), its result record (res) and the values it passed to
\* onTimerUpdate, in order (updates).
\* ------------------------------------------------------------------------
\* startTimer()
startTimer(e) ==
    [e EXCEPT !.timeRemaining = e.turnTimeLimit, !.turnTimer = TRUE]

\* A stopTimer that leaves the ticker installed.
stopTimer_keepsTicker(e) == e

\* stopTimer()
stopTimer(e) == [e EXCEPT !.turnTimer = FALSE]

\* resetTimer(): the engine after the call; it calls onTimerUpdate once,
\* with turnTimeLimit.
resetTimer(e) ==
    LET e1 == [e EXCEPT !.timeRemaining = e.turnTimeLimit]
    IN  IF ~e1.turnTimer THEN startTimer(e1) ELSE e1

\* destroy()
destroy(e) == stopTimer(e)

\* The turn test dropped: every player passes it.
isTurnOf_anyPlayer(e, player) == TRUE

\* The test "player !== this.currentPlayer" of revealTile and passTurn,
\* negated.
isTurnOf(e, player) == player = e.currentPlayer

\* A refusal that forgets the reveals of the turn.
Rejected_resetsReveals(e, error) ==
    [ eng |-> [e EXCEPT !.revealsThisTurn = 0], updates |-> <<>>,
      res |-> [success |-> FALSE, error |-> error] ]

\* The early returns of revealTile and passTurn: { success: false, error }
\* with the engine as it is.
Rejected(e, error) ==
    [ eng |-> e, updates |-> <<>>,
      res |-> [success |-> FALSE, error |-> error] ]

\* A terminal that always names the player of the final reveal.
clearWinner_finalRevealer(e, player) == player

\* The winner of the all_safe_revealed terminal: this.lastPassedBy || player.
clearWinner(e, player) ==
    IF e.lastPassedBy # Null THEN e.lastPassedBy ELSE player

\* A mine-hit branch that leaves the ticker installed.
hitMineResult_timerRuns(e, player, revealedTiles) ==
    LET e1 == [e EXCEPT !.gameStatus = "finished", !.winner = Opp(player)]
    IN  [ eng |-> e1, updates |-> <<>>,
          res |-> [ success |-> TRUE, hitMine |-> TRUE,
                    revealedTiles |-> revealedTiles, gameOver |-> TRUE,
                    winner |-> e1.winner, loser |-> player,
                    reason |-> Null,
                    scores |-> e1.scores, allMines |-> getAllMines(e1) ] ]

\* The mine-hit branch of revealTile.
hitMineResult(e, player, revealedTiles) ==
    LET e1 == stopTimer([e EXCEPT !.gameStatus = "finished",
                                  !.winner = Opp(player)])
    IN  [ eng |-> e1, updates |-> <<>>,
          res |-> [ success |-> TRUE, hitMine |-> TRUE,
                    revealedTiles |-> revealedTiles, gameOver |-> TRUE,
                    winner |-> e1.winner, loser |-> player,
                    reason |-> Null,
                    scores |-> e1.scores, allMines |-> getAllMines(e1) ] ]

\* The all-safe-revealed branch of revealTile.
allSafeResult(e, player, revealedTiles) ==
    LET e1 == stopTimer([e EXCEPT !.gameStatus = "finished",
                                  !.winner = clearWinner(e, player)])
    IN  [ eng |-> e1, updates |-> <<>>,
          res |-> [ success |-> TRUE, hitMine |-> FALSE,
                    revealedTiles |-> revealedTiles, gameOver |-> TRUE,
                    winner |-> e1.winner, loser |-> Null,
                    reason |-> "all_safe_revealed",
                    scores |-> e1.scores, allMines |-> {} ] ]

\* A score line that counts the first click too.
addScore_firstMoveToo(e, player, isFirstMove, count) ==
    [e EXCEPT !.scores[player] = @ + count * 10]

\* The score line of revealTile: the first click of a game scores nothing.
addScore(e, player, isFirstMove, count) ==
    IF ~isFirstMove
      THEN [e EXCEPT !.scores[player] = @ + count * 10]
      ELSE e

\* revealTile(x, z, player); M is the mine set the draws of placeMines end
\* with when this call places the mines.
revealTile(e, x, z, player, M) ==
    IF e.gameStatus # "playing" THEN Rejected(e, "not_playing")
    ELSE IF ~isTurnOf(e, player) THEN Rejected(e, "not_your_turn")
    ELSE IF ~InBounds(e.gridSize, x, z) THEN Rejected(e, "bad_coords")
    ELSE IF e.grid[<<x, z>>].isRevealed THEN Rejected(e, "already_revealed")
    ELSE
      LET isFirstMove == e.isFirstMove
          e1 == IF ~e.minesPlaced THEN placeMines(e, M) ELSE e
          dr == doReveal(e1.gridSize, e1.grid, x, z)
          n  == Len(dr.tiles)
          e2 == [e1 EXCEPT !.grid = dr.grid,
                           !.revealsThisTurn = @ + n,
                           !.totalRevealed = @ + n]
          e3 == addScore(e2, player, isFirstMove, n)
          e4 == IF e3.isFirstMove
                  THEN startTimer([e3 EXCEPT !.isFirstMove = FALSE])
                  ELSE e3
      IN  IF e4.grid[<<x, z>>].isMine
            THEN hitMineResult(e4, player, dr.tiles)
          ELSE IF checkWinCondition(e4)
            THEN allSafeResult(e4, player, dr.tiles)
          ELSE
            [ eng |-> e4, updates |-> <<>>,
              res |-> [ success |-> TRUE, hitMine |-> FALSE,
                        revealedTiles |-> dr.tiles, gameOver |-> FALSE,
                        canPass |-> e4.revealsThisTurn >= MIN_REVEALS_TO_PASS,
                        revealsThisTurn |-> e4.revealsThisTurn,
                        scores |-> e4.scores,
                        timerStarted |-> isFirstMove,
                        timeRemaining |-> e4.timeRemaining ] ]

\* The reveal test dropped.
hasRevealedEnough_always(e) == TRUE

\* The test "this.revealsThisTurn < CONFIG.MIN_REVEALS_TO_PASS" of passTurn,
\* negated.
hasRevealedEnough(e) == e.revealsThisTurn >= MIN_REVEALS_TO_PASS

\* A turn transfer that records the receiver of the turn as its passer.
transferTurn_passerIsReceiver(e, player) ==
    resetTimer([e EXCEPT !.lastPassedBy = Opp(player),
                         !.currentPlayer = Opp(player),
                         !.revealsThisTurn = 0])

\* A turn transfer that keeps the current player.
transferTurn_noSwap(e, player) ==
    resetTimer([e EXCEPT !.lastPassedBy = player, !.revealsThisTurn = 0])

\* The turn transfer of passTurn and of handleTimeout: lastPassedBy,
\* currentPlayer, revealsThisTurn, resetTimer().
transferTurn(e, player) ==
    resetTimer([e EXCEPT !.lastPassedBy = player,
                         !.currentPlayer = Opp(player),
                         !.revealsThisTurn = 0])

\* passTurn(player)
passTurn(e, player) ==
    IF e.gameStatus # "playing" THEN Rejected(e, "not_playing")
    ELSE IF ~isTurnOf(e, player) THEN Rejected(e, "not_your_turn")
    ELSE IF ~hasRevealedEnough(e) THEN Rejected(e, "need_reveals")
    ELSE
      LET e1 == transferTurn(e, player)
      IN  [ eng |-> e1, updates |-> <<e1.timeRemaining>>,
            res |-> [ success |-> TRUE, nextPlayer |-> e1.currentPlayer,
                      scores |-> e1.scores ] ]

\* handleTimeout() of the engine.
engineHandleTimeout(e) ==
    LET player == e.currentPlayer
    IN  IF e.revealsThisTurn = 0
          THEN LET e1 == stopTimer([e EXCEPT !.gameStatus = "finished",
                                             !.winner = Opp(player)])
               IN  [ eng |-> e1, updates |-> <<>>,
                     res |-> [ timeout |-> TRUE, gameOver |-> TRUE,
                               winner |-> e1.winner, loser |-> player,
                               reason |-> "timeout_no_action",
                               scores |-> e1.scores,
                               allMines |-> getAllMines(e1) ] ]
          ELSE LET e1 == transferTurn(e, player)
               IN  [ eng |-> e1, updates |-> <<e1.timeRemaining>>,
                     res |-> [ timeout |-> TRUE, gameOver |-> FALSE,
                               autoPassed |-> TRUE,
                               nextPlayer |-> e1.currentPlayer,
                               scores |-> e1.scores,
                               timeRemaining |-> e1.timeRemaining ] ]

\* ------------------------------------------------------------------------
\* GameEngine: snapshot views.  A tile of a view has hasInfo = TRUE when
\* isMine and neighborMines are given, FALSE when both are undefined.
\* ------------------------------------------------------------------------
\* getClientGrid()
getClientGrid(e) ==
    [ c \in DOMAIN e.grid |->
        IF e.grid[c].isRevealed
          THEN [ isRevealed |-> TRUE, hasInfo |-> TRUE,
                 isMine |-> e.grid[c].isMine,
                 neighborMines |-> e.grid[c].neighborMines ]
          ELSE [ isRevealed |-> FALSE, hasInfo |-> FALSE,
                 isMine |-> FALSE, neighborMines |-> 0 ] ]

\* A spectator grid that hides what the player grid hides.
getFullGridForSpectator_masked(e) ==
    [ c \in DOMAIN e.grid |->
        IF e.grid[c].isRevealed
          THEN [ isRevealed |-> TRUE, hasInfo |-> TRUE,
                 isMine |-> e.grid[c].isMine,
                 neighborMines |-> e.grid[c].neighborMines ]
          ELSE [ isRevealed |-> FALSE, hasInfo |-> FALSE,
                 isMine |-> FALSE, neighborMines |-> 0 ] ]

\* getFullGridForSpectator()
getFullGridForSpectator(e) ==
    [ c \in DOMAIN e.grid |->
        [ isRevealed |-> e.grid[c].isRevealed, hasInfo |-> TRUE,
          isMine |-> e.grid[c].isMine,
          neighborMines |-> e.grid[c].neighborMines ] ]

\* A snapshot built on the spectator grid.
getGameState_fullGrid(e) ==
    [ currentPlayer |-> e.currentPlayer,
      revealsThisTurn |-> e.revealsThisTurn,
      totalRevealed |-> e.totalRevealed,
      gameStatus |-> e.gameStatus,
      winner |-> e.winner,
      timeRemaining |-> e.timeRemaining,
      isFirstMove |-> e.isFirstMove,
      scores |-> e.scores,
      grid |-> getFullGridForSpectator(e) ]

\* getGameState(): the fields of the snapshot that depend on the engine.
getGameState(e) ==
    [ currentPlayer |-> e.currentPlayer,
      revealsThisTurn |-> e.revealsThisTurn,
      totalRevealed |-> e.totalRevealed,
      gameStatus |-> e.gameStatus,
      winner |-> e.winner,
      timeRemaining |-> e.timeRemaining,
      isFirstMove |-> e.isFirstMove,
      scores |-> e.scores,
      grid |-> getClientGrid(e) ]

\* getSpectatorGameState(): the fields of the snapshot that depend on the
\* engine.
getSpectatorGameState(e) ==
    [ currentPlayer |-> e.currentPlayer,
      revealsThisTurn |-> e.revealsThisTurn,
      totalRevealed |-> e.totalRevealed,
      gameStatus |-> e.gameStatus,
      winner |-> e.winner,
      timeRemaining |-> e.timeRemaining,
      isFirstMove |-> e.isFirstMove,
      scores |-> e.scores,
      grid |-> getFullGridForSpectator(e) ]

\* ------------------------------------------------------------------------
\* Room journal (roomHistory): the write operations
\* ------------------------------------------------------------------------
\* The data directory holds the journal file of the room, rooms/<code>.json,
\* and the files moved to archive/.  NoFile stands for an absent file.
NoFile == [exists |-> FALSE]

EmptyDataDir == [rooms |-> NoFile, archive |-> <<>>]

\* Promise.resolve(), the promise a write operation is chained to when the
\* room has no entry in writeQueues; the promises of queueWrite are numbered
\* from 1.
Resolved == 0

\* readRoomHistory(roomCode)
readRoomHistory(d) == d.rooms

\* The write operation of initRoomHistory
initRoomHistory(d, data) ==
    [ d EXCEPT !.rooms =
        [ exists |-> TRUE,
          messages |-> <<>>,
          games |-> <<>>,
          events |-> <<[type |-> "room_created"]>>,
          closedAt |-> FALSE ] ]

\* The write operation of recordPlayerJoin
recordPlayerJoin(d, data) ==
    IF ~readRoomHistory(d).exists THEN d
    ELSE [d EXCEPT !.rooms.events = Append(@, [type |-> "player_joined"])]

\* The write operation of recordMessage
recordMessage(d, data) ==
    IF ~readRoomHistory(d).exists THEN d
    ELSE [d EXCEPT !.rooms.messages = Append(@, data)]

\* The write operation of recordGameStart
recordGameStart(d, data) ==
    IF ~readRoomHistory(d).exists THEN d
    ELSE LET gameIndex == Len(d.rooms.games)
         IN  [ d EXCEPT
                 !.rooms.games = Append(@, [ gameIndex |-> gameIndex,
                                             start |-> data,
                                             moves |-> <<>>,
                                             result |-> <<>> ]),
                 !.rooms.events = Append(@, [ type |-> "game_started",
                                              gameIndex |-> gameIndex ]) ]

\* The write operation of recordGameMove
recordGameMove(d, data) ==
    IF ~readRoomHistory(d).exists \/ d.rooms.games = <<>> THEN d
    ELSE [d EXCEPT !.rooms.games[Len(d.rooms.games)].moves = Append(@, data)]

\* The write operation of recordGameEnd
recordGameEnd(d, data) ==
    IF ~readRoomHistory(d).exists \/ d.rooms.games = <<>> THEN d
    ELSE [ d EXCEPT
             !.rooms.games[Len(d.rooms.games)].result = <<data>>,
             !.rooms.events = Append(@, [ type |-> "game_ended",
                                          gameIndex |-> Len(d.rooms.games) - 1 ]) ]

\* The write operation of recordPlayerLeave
recordPlayerLeave(d, data) ==
    IF ~readRoomHistory(d).exists THEN d
    ELSE [d EXCEPT !.rooms.events = Append(@, [type |-> "player_left"])]

\* The write operation of archiveRoomHistory
archiveRoomHistory(d, data) ==
    IF ~d.rooms.exists THEN d
    ELSE [ rooms |-> NoFile,
           archive |-> Append(d.archive,
                          [ d.rooms EXCEPT
                              !.closedAt = TRUE,
                              !.events = Append(@, [type |-> "room_closed"]) ]) ]

\* A call of the journal: the exported function and its argument.
Call(fn, data) == [fn |-> fn, data |-> data]

\* The write operation the call hands to queueWrite, run on the directory d.
writeOperation(d, call) ==
    CASE call.fn = "initRoomHistory" -> initRoomHistory(d, call.data)
      [] call.fn = "recordPlayerJoin" -> recordPlayerJoin(d, call.data)
      [] call.fn = "recordMessage" -> recordMessage(d, call.data)
      [] call.fn = "recordGameStart" -> recordGameStart(d, call.data)
      [] call.fn = "recordGameMove" -> recordGameMove(d, call.data)
      [] call.fn = "recordGameEnd" -> recordGameEnd(d, call.data)
      [] call.fn = "recordPlayerLeave" -> recordPlayerLeave(d, call.data)
      [] call.fn = "archiveRoomHistory" -> archiveRoomHistory(d, call.data)

\* The directory after the write operations of `calls` ran one after the
\* other on d.
RECURSIVE runAll(_, _)
runAll(d, calls) ==
    IF calls = <<>> THEN d
    ELSE runAll(writeOperation(d, Head(calls)), Tail(calls))

\* ------------------------------------------------------------------------
\* State
\* ------------------------------------------------------------------------
VARIABLES
    room,             \* the room object created by "h" (roomManager.createRoom)
    game,             \* room.game: the installed GameEngine, or NoGame
    leaked,           \* bag of timeRemaining of the running tickers of engines
                      \* that startGame replaced without stopping them
    connected,        \* the connections that have not disconnected
    ioRoom,           \* members of the Socket.IO room `code`
    ioSpectate,       \* members of the Socket.IO room `spectate:code`
    spectateRoomCode, \* connections whose socket.spectateRoomCode is set
    gamesStarted,     \* number of startGame calls so far
    spectatorRooms,   \* the /admin connections with an entry in spectatorRooms:
                      \* the members of `spectate:code` in the /admin namespace
    dataDir,          \* the journal file of the room and the archived files
    writeQueues,      \* the promises queueWrite made for the room, in the
                      \* order of the calls, and the entry of the room in
                      \* the writeQueues map
    now,              \* Date.now(), in milliseconds
    danmakuCooldowns, \* the danmakuCooldowns map: the time of the last
                      \* send_danmaku of a connection that passed the rate
                      \* check; 0 for a connection without entry
    delivered,        \* history: the time of the last chat message of a
                      \* connection that was broadcast; 0 when there is none
    ioSpectateLower,  \* members of the Socket.IO room `spectate:` followed
                      \* by the lower-case spelling of the code
    sent              \* the messages emitted by the last handler, in order

vars == << room, game, leaked, connected, ioRoom, ioSpectate,
           spectateRoomCode, gamesStarted, spectatorRooms, dataDir,
           writeQueues, now, danmakuCooldowns, delivered, ioSpectateLower,
           sent >>

\* Members of `spectate:code` in the /admin namespace.
AdminSpectators == spectatorRooms

\* room.matchStats of a new room.
InitMatchStats == [gamesPlayed |-> 0, hostWins |-> 0, guestWins |-> 0]

\* createRoom(hostSocketId, hostName, options)
createRoom(hostSocketId, options) ==
    [ inRegistry |-> TRUE,
      host |-> hostSocketId,
      guest |-> Null,
      gameState |-> "waiting",
      settings |-> options,
      nextStartingPlayer |-> Null,
      matchStats |-> InitMatchStats,
      createdAt |-> now,
      spectators |-> {} ]

\* The settings a room is created with.
SettingsSpace ==
    [ gridSize : 2 .. MaxGridSize,
      minesCount : 1 .. MaxMines,
      turnTimeLimit : {TurnLimit} ]

Init ==
    /\ now = DANMAKU_COOLDOWN_MS
    /\ danmakuCooldowns = [c \in Conns |-> 0]
    /\ delivered = [c \in Conns |-> 0]
    /\ ioSpectateLower = {}
    /\ room \in { createRoom("h", o) : o \in SettingsSpace }
    /\ game = NoGame
    /\ leaked = EmptyBag
    /\ connected = Conns \cup Admins
    /\ ioRoom = {"h"}
    /\ ioSpectate = {}
    /\ spectateRoomCode = {}
    /\ gamesStarted = 0
    /\ spectatorRooms = {}
    /\ dataDir = EmptyDataDir
    /\ writeQueues = [promises |-> <<>>, entry |-> Resolved]
    /\ sent = <<>>

\* ------------------------------------------------------------------------
\* Registry look-ups (roomManager)
\* ------------------------------------------------------------------------
HasGame == game.gameStatus # "none"

\* The journal calls of a handler: queueWrite chains their write operations,
\* which run in the order of the calls once the handler has returned and
\* before the next event is handled.
journal(calls) == dataDir' = runAll(dataDir, calls)

\* getRoomByCode(code) for the code of the room: is it in the registry
getRoomByCode == room.inRegistry

\* getRoomBySocketId(socketId): does it return the room
getRoomBySocketId(c) == room.inRegistry /\ (room.host = c \/ room.guest = c)

\* getPlayerRole(code, socketId)
getPlayerRole(c) ==
    IF ~room.inRegistry THEN Null
    ELSE IF room.host = c THEN "host"
    ELSE IF room.guest = c THEN "guest"
    ELSE Null

\* ------------------------------------------------------------------------
\* Emission.  A message records its event, the audience it was emitted to,
\* the connections that were members of that audience at that moment, and
\* its payload.
\* ------------------------------------------------------------------------
Msg(ev, aud, to, p) == [ev |-> ev, aud |-> aud, to |-> to, p |-> p]

\* socket.emit(ev, p)
Emit(c, ev, p) == Msg(ev, "direct", {c}, p)

\* io.to(room.code).emit(ev, p)
ToPlayers(ev, p) == Msg(ev, "players", ioRoom, p)

\* A broadcast that reaches the /admin namespace alone.
broadcastToSpectators_adminOnly(ev, p) ==
    << Msg(ev, "admin", AdminSpectators, p) >>

\* broadcastToSpectators(io, code, ev, p): /admin namespace first, then the
\* main namespace.
broadcastToSpectators(ev, p) ==
    << Msg(ev, "admin", AdminSpectators, p),
       Msg(ev, "spectators", ioSpectate, p) >>

\* The pair of calls io.to(room.code).emit(ev, p) and
\* broadcastToSpectators(io, room.code, ev, p).
Broadcast(ev, p) == <<ToPlayers(ev, p)>> \o broadcastToSpectators(ev, p)

\* The spellings of the code of the room a request may carry: the canonical
\* upper-case code and its lower-case variant.
CodeVariants == {"ROOM", "room"}

\* roomCode.toUpperCase()
toUpperCase(roomCode) == IF roomCode = "room" THEN "ROOM" ELSE roomCode

\* Members of the Socket.IO room named roomCode: the players joined the room
\* named by room.code, no connection joins one named by another spelling.
playersOf(roomCode) == IF roomCode = "ROOM" THEN ioRoom ELSE {}

\* Members of the room `spectate:roomCode` of the /admin namespace.
adminsOf(roomCode) == IF roomCode = "ROOM" THEN AdminSpectators ELSE {}

\* Members of the room `spectate:roomCode` of the default namespace.
spectatorsOf(roomCode) ==
    IF roomCode = "ROOM" THEN ioSpectate
    ELSE IF roomCode = "room" THEN ioSpectateLower
    ELSE {}

\* The pair of calls io.to(roomCode).emit(ev, p) and
\* broadcastToSpectators(io, roomCode, ev, p) with the code as the request
\* gave it.
BroadcastTo(roomCode, ev, p) ==
    << Msg(ev, "players", playersOf(roomCode), p),
       Msg(ev, "admin", adminsOf(roomCode), p),
       Msg(ev, "spectators", spectatorsOf(roomCode), p) >>

\* The onTimerUpdate callback of startGame, for each value of `updates`.
RECURSIVE TimerUpdates(_)
TimerUpdates(updates) ==
    IF updates = <<>> THEN <<>>
    ELSE Broadcast("timer_update", [timeRemaining |-> Head(updates)])
           \o TimerUpdates(Tail(updates))

\* ------------------------------------------------------------------------
\* Terminal bookkeeping shared by the reveal_tile handler and handleTimeout
\* ------------------------------------------------------------------------
\* The winner starts the next game.
nextStarter_winner(res) == res.winner

\* room.nextStartingPlayer = result.loser || opposite of result.winner
nextStarter(res) ==
    IF res.loser # Null THEN res.loser ELSE Opp(res.winner)

\* The matchStats update of a natural game end.
bumpStats(stats, winner) ==
    [ gamesPlayed |-> stats.gamesPlayed + 1,
      hostWins |-> stats.hostWins + (IF winner = "host" THEN 1 ELSE 0),
      guestWins |-> stats.guestWins + (IF winner = "guest" THEN 1 ELSE 0) ]

\* The room after a natural game end.
finishRoom(r, res) ==
    [ r EXCEPT !.nextStartingPlayer = nextStarter(res),
               !.matchStats = bumpStats(r.matchStats, res.winner),
               !.gameState = "finished" ]

\* gameOverData
gameOverData(r, e, res, reason) ==
    [ winner |-> res.winner, loser |-> res.loser, reason |-> reason,
      scores |-> res.scores,
      allMines |-> IF res.allMines # {} THEN res.allMines ELSE getAllMines(e),
      matchStats |-> bumpStats(r.matchStats, res.winner) ]

\* ------------------------------------------------------------------------
\* Handlers (socketHandler)
\* ------------------------------------------------------------------------
\* The payload of game_start; `grid` is the view the audience gets.
gameStartData(r, startingPlayer, grid) ==
    [ grid |-> grid,
      gridSize |-> r.settings.gridSize,
      minesCount |-> r.settings.minesCount,
      currentPlayer |-> startingPlayer,
      turnTimeLimit |-> r.settings.turnTimeLimit,
      isFirstMove |-> TRUE,
      matchStats |-> r.matchStats ]

\* The engine startGame installs.
startedEngine(r) ==
    generateGrid(NewEngine(r.settings,
        IF r.nextStartingPlayer # Null THEN r.nextStartingPlayer ELSE "host"))

\* startGame(io, room) for the room r whose connections are in the audience
\* `players`; `before` are the messages the calling handler emitted first.
\* The engine that was installed is not stopped: if its ticker runs, it
\* keeps running.
startGame(r, players, before) ==
    LET e == startedEngine(r)
        data(grid) == gameStartData(r, e.startingPlayer, grid)
    IN  /\ gamesStarted < MaxGames
        /\ game.turnTimer => BagCardinality(leaked) < MaxLeaked
        /\ game' = e
        /\ leaked' = IF game.turnTimer
                       THEN leaked (+) SetToBag({game.timeRemaining})
                       ELSE leaked
        /\ room' = [r EXCEPT !.gameState = "playing"]
        /\ gamesStarted' = gamesStarted + 1
        /\ journal(<<Call("recordGameStart", e.startingPlayer)>>)
        /\ sent' = before
                     \o << Msg("game_start", "players", players,
                               data(getClientGrid(e))) >>
                     \o << Msg("game_start", "admin", AdminSpectators,
                               data(getFullGridForSpectator(e))),
                           Msg("game_start", "spectators", ioSpectate,
                               data(getFullGridForSpectator(e))) >>

\* roomManager.joinRoom: the result of the join of guestSocketId, with the
\* room as the call leaves it.
joinRoom_noStateCheck(guestSocketId) ==
    IF ~room.inRegistry
      THEN [success |-> FALSE, error |-> "no_room", room |-> room]
    ELSE IF room.guest # Null
      THEN [success |-> FALSE, error |-> "room_full", room |-> room]
    ELSE [success |-> TRUE, error |-> Null,
          room |-> [room EXCEPT !.guest = guestSocketId]]

joinRoom(guestSocketId) ==
    IF ~room.inRegistry
      THEN [success |-> FALSE, error |-> "no_room", room |-> room]
    ELSE IF room.gameState # "waiting"
      THEN [success |-> FALSE, error |-> "game_started", room |-> room]
    ELSE IF room.guest # Null
      THEN [success |-> FALSE, error |-> "room_full", room |-> room]
    ELSE [success |-> TRUE, error |-> Null,
          room |-> [room EXCEPT !.guest = guestSocketId]]

\* join_room with the code of the room and a valid name.
JoinRoom(c) ==
    /\ c \in connected
    /\ IF ~getRoomByCode
         THEN /\ sent' = <<Emit(c, "join_error", [error |-> "no_room"])>>
              /\ UNCHANGED << room, game, leaked, connected, ioRoom,
                              ioSpectate, spectateRoomCode, gamesStarted,
                              dataDir >>
       ELSE IF room.gameState \in {"playing", "finished"}
         THEN /\ sent' = <<Emit(c, "redirect_to_spectate",
                                [gameState |-> room.gameState])>>
              /\ UNCHANGED << room, game, leaked, connected, ioRoom,
                              ioSpectate, spectateRoomCode, gamesStarted,
                              dataDir >>
       ELSE IF ~joinRoom(c).success
         THEN /\ sent' = <<Emit(c, "join_error",
                                [error |-> joinRoom(c).error])>>
              /\ UNCHANGED << room, game, leaked, connected, ioRoom,
                              ioSpectate, spectateRoomCode, gamesStarted,
                              dataDir >>
       ELSE /\ ioRoom' = ioRoom \cup {c}
            /\ startGame(joinRoom(c).room, ioRoom \cup {c},
                         << Emit(c, "room_joined", [role |-> "guest"]),
                            Emit(room.host, "player_joined", [role |-> "guest"]) >>)
            /\ UNCHANGED << connected, ioSpectate, spectateRoomCode >>
    /\ UNCHANGED spectatorRooms
    /\ UNCHANGED writeQueues
    /\ UNCHANGED << now, danmakuCooldowns, delivered, ioSpectateLower >>

\* The payload of tile_revealed.
tileRevealedData(x, z, playerRole, res) ==
    IF res.gameOver
      THEN [ x |-> x, z |-> z, player |-> playerRole,
             hitMine |-> res.hitMine, revealedTiles |-> res.revealedTiles,
             scores |-> res.scores ]
      ELSE [ x |-> x, z |-> z, player |-> playerRole,
             hitMine |-> res.hitMine, revealedTiles |-> res.revealedTiles,
             canPass |-> res.canPass, revealsThisTurn |-> res.revealsThisTurn,
             scores |-> res.scores, timeRemaining |-> res.timeRemaining,
             timerStarted |-> res.timerStarted ]

\* reveal_tile {x, z}
RevealTile(c, x, z) ==
    /\ c \in connected
    /\ IF ~getRoomBySocketId(c) \/ ~HasGame
         THEN /\ sent' = <<Emit(c, "error", [error |-> "not_started"])>>
              /\ UNCHANGED << room, game, dataDir >>
         ELSE \E M \in (IF ~game.minesPlaced /\ InBounds(game.gridSize, x, z)
                          THEN mineLayouts(game.gridSize, game.minesCount, x, z)
                          ELSE {{}}) :
                LET r == revealTile(game, x, z, getPlayerRole(c), M)
                    move == Call("recordGameMove",
                                 [ type |-> "reveal", player |-> getPlayerRole(c),
                                   x |-> x, z |-> z, hitMine |-> r.res.hitMine ])
                IN  IF ~r.res.success
                      THEN /\ sent' = <<Emit(c, "error", [error |-> r.res.error])>>
                           /\ game' = r.eng
                           /\ UNCHANGED << room, dataDir >>
                    ELSE IF r.res.gameOver
                      THEN /\ game' = destroy(r.eng)
                           /\ room' = finishRoom(room, r.res)
                           /\ sent' =
                                Broadcast("tile_revealed",
                                    tileRevealedData(x, z, getPlayerRole(c), r.res))
                                \o Broadcast("game_over",
                                    gameOverData(room, r.eng, r.res,
                                        IF r.res.hitMine THEN "hit_mine"
                                        ELSE "all_safe_revealed"))
                           /\ journal(<< move,
                                         Call("recordGameEnd",
                                              [ winner |-> r.res.winner,
                                                reason |-> IF r.res.hitMine
                                                             THEN "hit_mine"
                                                             ELSE "all_safe_revealed" ]) >>)
                    ELSE /\ game' = r.eng
                         /\ room' = room
                         /\ journal(<<move>>)
                         /\ sent' = Broadcast("tile_revealed",
                                tileRevealedData(x, z, getPlayerRole(c), r.res))
    /\ UNCHANGED << leaked, connected, ioRoom, ioSpectate, spectateRoomCode,
                    gamesStarted >>
    /\ UNCHANGED spectatorRooms
    /\ UNCHANGED writeQueues
    /\ UNCHANGED << now, danmakuCooldowns, delivered, ioSpectateLower >>

\* pass_turn
PassTurn(c) ==
    /\ c \in connected
    /\ IF ~getRoomBySocketId(c) \/ ~HasGame
         THEN /\ sent' = <<Emit(c, "error", [error |-> "not_started"])>>
              /\ UNCHANGED << game, dataDir >>
         ELSE LET r == passTurn(game, getPlayerRole(c))
              IN  IF ~r.res.success
                    THEN /\ sent' = <<Emit(c, "error", [error |-> r.res.error])>>
                         /\ game' = r.eng
                         /\ UNCHANGED dataDir
                    ELSE /\ game' = r.eng
                         /\ journal(<<Call("recordGameMove",
                                           [ type |-> "pass",
                                             player |-> getPlayerRole(c) ])>>)
                         /\ sent' = TimerUpdates(r.updates)
                              \o Broadcast("turn_changed",
                                   [ currentPlayer |-> r.res.nextPlayer,
                                     previousPlayer |-> getPlayerRole(c),
                                     reason |-> Null,
                                     scores |-> r.res.scores,
                                     timeRemaining |-> game.turnTimeLimit ])
    /\ UNCHANGED << room, leaked, connected, ioRoom, ioSpectate,
                    spectateRoomCode, gamesStarted >>
    /\ UNCHANGED spectatorRooms
    /\ UNCHANGED writeQueues
    /\ UNCHANGED << now, danmakuCooldowns, delivered, ioSpectateLower >>

\* handleTimeout(io, room) for the room r whose room.game is e: the room,
\* the engine, the emitted messages and the journal calls of the call.
handleTimeout(r, e) ==
    IF e.gameStatus # "playing"
      THEN [room |-> r, game |-> e, msgs |-> <<>>, calls |-> <<>>]
      ELSE
        LET out == engineHandleTimeout(e)
        IN  IF out.res.gameOver
              THEN [ room |-> finishRoom(r, out.res),
                     game |-> destroy(out.eng),
                     msgs |-> Broadcast("game_over",
                                gameOverData(r, out.eng, out.res, out.res.reason)),
                     calls |-> <<Call("recordGameEnd",
                                      [ winner |-> out.res.winner,
                                        reason |-> out.res.reason ])>> ]
              ELSE [ room |-> r,
                     game |-> out.eng,
                     msgs |-> TimerUpdates(out.updates)
                        \o Broadcast("timeout_action",
                             [ player |-> Opp(out.res.nextPlayer),
                               autoPassed |-> out.res.autoPassed,
                               nextPlayer |-> out.res.nextPlayer,
                               timeRemaining |-> out.eng.turnTimeLimit,
                               scores |-> out.res.scores ])
                        \o Broadcast("turn_changed",
                             [ currentPlayer |-> out.res.nextPlayer,
                               previousPlayer |-> Opp(out.res.nextPlayer),
                               reason |-> "timeout_auto_pass",
                               timeRemaining |-> out.eng.turnTimeLimit ]),
                     calls |-> <<Call("recordGameMove",
                                      [ type |-> "timeout_auto_pass",
                                        player |-> Opp(out.res.nextPlayer) ])>> ]

\* One firing of the setInterval callback of the installed engine.
Tick ==
    /\ game.turnTimer
    /\ LET t == game.timeRemaining - 1
           tick == Broadcast("timer_update", [timeRemaining |-> t])
       IN  IF t <= 0
             THEN LET h == handleTimeout(room, stopTimer([game EXCEPT !.timeRemaining = t]))
                  IN  /\ game' = h.game
                      /\ room' = h.room
                      /\ journal(h.calls)
                      /\ sent' = tick \o h.msgs
             ELSE /\ game' = [game EXCEPT !.timeRemaining = t]
                  /\ room' = room
                  /\ UNCHANGED dataDir
                  /\ sent' = tick
    /\ UNCHANGED << leaked, connected, ioRoom, ioSpectate, spectateRoomCode,
                    gamesStarted >>
    /\ UNCHANGED spectatorRooms
    /\ UNCHANGED writeQueues
    /\ UNCHANGED << now, danmakuCooldowns, delivered, ioSpectateLower >>

\* One firing of the setInterval callback of an engine that startGame
\* replaced while its ticker was running; t is its timeRemaining.  Its
\* onTurnTimeout closure calls handleTimeout(io, room), which acts on the
\* engine installed now.
LeakedTick(t) ==
    /\ BagIn(t, leaked)
    /\ LET tick == Broadcast("timer_update", [timeRemaining |-> t - 1])
           rest == leaked (-) SetToBag({t})
       IN  IF t - 1 <= 0
             THEN LET h == handleTimeout(room, game)
                  IN  /\ leaked' = rest
                      /\ game' = h.game
                      /\ room' = h.room
                      /\ journal(h.calls)
                      /\ sent' = tick \o h.msgs
             ELSE /\ leaked' = rest (+) SetToBag({t - 1})
                  /\ game' = game
                  /\ room' = room
                  /\ UNCHANGED dataDir
                  /\ sent' = tick
    /\ UNCHANGED << connected, ioRoom, ioSpectate, spectateRoomCode,
                    gamesStarted >>
    /\ UNCHANGED spectatorRooms
    /\ UNCHANGED writeQueues
    /\ UNCHANGED << now, danmakuCooldowns, delivered, ioSpectateLower >>

\* request_restart
RequestRestart(c) ==
    /\ c \in connected
    /\ getRoomBySocketId(c)
    /\ LET opponent == IF room.host = c THEN room.guest ELSE room.host
       IN  sent' = IF opponent # Null
                     THEN <<Msg("restart_requested", "direct", {opponent},
                                [from |-> getPlayerRole(c)])>>
                     ELSE <<>>
    /\ UNCHANGED << room, game, leaked, connected, ioRoom, ioSpectate,
                    spectateRoomCode, gamesStarted >>
    /\ UNCHANGED spectatorRooms
    /\ UNCHANGED << dataDir, writeQueues >>
    /\ UNCHANGED << now, danmakuCooldowns, delivered, ioSpectateLower >>

\* accept_restart
AcceptRestart(c) ==
    /\ c \in connected
    /\ getRoomBySocketId(c)
    /\ room.guest # Null
    /\ startGame(room, ioRoom, <<>>)
    /\ UNCHANGED << connected, ioRoom, ioSpectate, spectateRoomCode >>
    /\ UNCHANGED spectatorRooms
    /\ UNCHANGED writeQueues
    /\ UNCHANGED << now, danmakuCooldowns, delivered, ioSpectateLower >>

\* getSpectatorCount(code) on the spectator set S
getSpectatorCount(S) == IF room.inRegistry THEN Cardinality(S) ELSE 0

\* broadcastSpectatorCount(io, code) of socketHandler
broadcastSpectatorCount(S) ==
    << Msg("spectator_count_update", "players", ioRoom,
           [count |-> getSpectatorCount(S)]),
       Msg("spectator_count_update", "admin", AdminSpectators,
           [count |-> getSpectatorCount(S)]) >>

\* public_spectate {roomCode} with the code of the room
PublicSpectate(c) ==
    /\ c \in connected
    /\ IF ~getRoomByCode
         THEN /\ sent' = <<Emit(c, "spectate_error", [error |-> "no_room"])>>
              /\ UNCHANGED << room, ioSpectate, spectateRoomCode >>
         ELSE /\ Cardinality((room.spectators \cup {c}) \cap Conns) <= MaxSpectators
              /\ room' = [room EXCEPT !.spectators = @ \cup {c}]
              /\ ioSpectate' = ioSpectate \cup {c}
              /\ spectateRoomCode' = spectateRoomCode \cup {c}
              /\ sent' =
                   << Emit(c, "spectate_joined",
                        [ spectatorCount |-> Cardinality(room.spectators \cup {c}),
                          gameState |-> room.gameState,
                          hasGame |-> HasGame,
                          game |-> getGameState(game),
                          matchStats |-> room.matchStats ]) >>
                   \o broadcastSpectatorCount(room.spectators \cup {c})
    /\ UNCHANGED << game, leaked, connected, ioRoom, gamesStarted >>
    /\ UNCHANGED spectatorRooms
    /\ UNCHANGED << dataDir, writeQueues >>
    /\ UNCHANGED << now, danmakuCooldowns, delivered, ioSpectateLower >>

\* public_spectate {roomCode} with the lower-case spelling of the code of
\* the room: the lookups find the room, socket.join and
\* broadcastSpectatorCount use the code as it was given.
PublicSpectateLower(c) ==
    /\ c \in connected
    /\ IF toUpperCase("room") # "ROOM" \/ ~getRoomByCode
         THEN /\ sent' = <<Emit(c, "spectate_error", [error |-> "no_room"])>>
              /\ UNCHANGED << room, ioSpectateLower, spectateRoomCode >>
         ELSE /\ Cardinality((room.spectators \cup {c}) \cap Conns) <= MaxSpectators
              /\ room' = [room EXCEPT !.spectators = @ \cup {c}]
              /\ ioSpectateLower' = ioSpectateLower \cup {c}
              /\ spectateRoomCode' = spectateRoomCode \cup {c}
              /\ sent' =
                   << Emit(c, "spectate_joined",
                        [ spectatorCount |-> Cardinality(room.spectators \cup {c}),
                          gameState |-> room.gameState,
                          hasGame |-> HasGame,
                          game |-> getGameState(game),
                          matchStats |-> room.matchStats ]),
                      Msg("spectator_count_update", "players", playersOf("room"),
                          [count |-> getSpectatorCount(room.spectators \cup {c})]),
                      Msg("spectator_count_update", "admin", adminsOf("room"),
                          [count |-> getSpectatorCount(room.spectators \cup {c})]) >>
    /\ UNCHANGED << game, leaked, connected, ioRoom, ioSpectate, gamesStarted >>
    /\ UNCHANGED spectatorRooms
    /\ UNCHANGED << dataDir, writeQueues >>
    /\ UNCHANGED << now, danmakuCooldowns, delivered >>

\* leave_spectate
LeaveSpectate(c) ==
    /\ c \in connected
    /\ c \in spectateRoomCode
    /\ room' = IF room.inRegistry
                 THEN [room EXCEPT !.spectators = @ \ {c}]
                 ELSE room
    /\ ioSpectate' = ioSpectate \ {c}
    /\ spectateRoomCode' = spectateRoomCode \ {c}
    /\ sent' = broadcastSpectatorCount(room.spectators \ {c})
    /\ UNCHANGED << game, leaked, connected, ioRoom, gamesStarted >>
    /\ UNCHANGED spectatorRooms
    /\ UNCHANGED << dataDir, writeQueues >>
    /\ UNCHANGED << now, danmakuCooldowns, delivered, ioSpectateLower >>

\* leaveRoom(socketId) when it finds the room: the room after the call
leaveRoom(c) ==
    IF room.host = c
      THEN [room EXCEPT !.inRegistry = FALSE]
      ELSE [room EXCEPT !.guest = Null,
                        !.gameState = IF room.gameState = "playing"
                                        THEN "finished" ELSE "waiting"]

\* disconnect
Disconnect(c) ==
    /\ c \in connected
    /\ connected' = connected \ {c}
    /\ ioRoom' = ioRoom \ {c}
    /\ ioSpectate' = ioSpectate \ {c}
    /\ spectateRoomCode' = spectateRoomCode \ {c}
    /\ IF room.inRegistry /\ c \in room.spectators
         THEN \* removePublicSpectatorBySocketId found the room: return
              /\ room' = [room EXCEPT !.spectators = @ \ {c}]
              /\ game' = game
              /\ sent' = << Msg("spectator_count_update", "players",
                                ioRoom \ {c},
                                [count |-> Cardinality(room.spectators \ {c})]),
                            Msg("spectator_count_update", "admin",
                                AdminSpectators,
                                [count |-> Cardinality(room.spectators \ {c})]) >>
       ELSE IF getRoomBySocketId(c)
         THEN /\ room' = leaveRoom(c)
              /\ game' = IF HasGame THEN destroy(game) ELSE game
              /\ sent' =
                   IF room.host = c
                     THEN (IF room.guest # Null
                             THEN <<Msg("game_over", "direct",
                                        {room.guest} \cap (connected \ {c}),
                                        [ winner |-> "guest",
                                          reason |-> "opponent_disconnected" ])>>
                             ELSE <<>>)
                          \o << Msg("room_closed", "admin", AdminSpectators,
                                    [reason |-> "host_disconnected"]),
                                Msg("room_closed", "spectators", ioSpectate \ {c},
                                    [reason |-> "host_disconnected"]) >>
                     ELSE << Msg("game_over", "direct",
                                 {room.host} \cap (connected \ {c}),
                                 [ winner |-> "host",
                                   reason |-> "opponent_disconnected" ]),
                             Msg("game_over", "admin", AdminSpectators,
                                 [ winner |-> "host",
                                   reason |-> "opponent_disconnected" ]),
                             Msg("game_over", "spectators", ioSpectate \ {c},
                                 [ winner |-> "host",
                                   reason |-> "opponent_disconnected" ]) >>
       ELSE /\ room' = room
            /\ game' = game
            /\ sent' = <<>>
    /\ UNCHANGED << leaked, gamesStarted >>
    /\ UNCHANGED spectatorRooms
    /\ UNCHANGED << dataDir, writeQueues >>
    /\ danmakuCooldowns' = [danmakuCooldowns EXCEPT ![c] = 0]
    /\ ioSpectateLower' = ioSpectateLower \ {c}
    /\ UNCHANGED << now, delivered >>

\* ------------------------------------------------------------------------
\* Handlers of the /admin namespace (adminHandler)
\* ------------------------------------------------------------------------
\* broadcastSpectatorCount(io, code) of adminHandler, for the room whose
\* spectator set is S and whose /admin audience is `admins`.
adminBroadcastSpectatorCount(S, admins) ==
    << Msg("spectator_count_update", "players", ioRoom,
           [count |-> getSpectatorCount(S)]),
       Msg("spectator_count_update", "admin", admins,
           [count |-> getSpectatorCount(S)]) >>

\* admin_spectate {roomCode} with the code of the room
AdminSpectate(a) ==
    /\ a \in connected
    /\ IF a \notin Authenticated
         THEN /\ sent' = <<Emit(a, "admin_error", [error |-> "unauthorized"])>>
              /\ UNCHANGED << room, spectatorRooms >>
       ELSE IF ~getRoomByCode
         THEN /\ sent' = <<Emit(a, "spectate_error", [error |-> "no_room"])>>
              /\ UNCHANGED << room, spectatorRooms >>
       ELSE /\ room' = [room EXCEPT !.spectators = @ \cup {a}]
            /\ spectatorRooms' = spectatorRooms \cup {a}
            /\ sent' =
                 << Emit(a, "spectate_joined",
                      [ spectatorCount |-> Cardinality(room.spectators \cup {a}),
                        gameState |-> room.gameState,
                        hasGame |-> HasGame,
                        game |-> getSpectatorGameState(game) ]) >>
                 \o adminBroadcastSpectatorCount(room.spectators \cup {a},
                                                 spectatorRooms \cup {a})
    /\ UNCHANGED << game, leaked, connected, ioRoom, ioSpectate,
                    spectateRoomCode, gamesStarted >>
    /\ UNCHANGED << dataDir, writeQueues >>
    /\ UNCHANGED << now, danmakuCooldowns, delivered, ioSpectateLower >>

\* admin_leave_spectate of a connection that spectates
AdminLeaveSpectate(a) ==
    /\ a \in connected
    /\ a \in spectatorRooms
    /\ room' = IF room.inRegistry
                 THEN [room EXCEPT !.spectators = @ \ {a}]
                 ELSE room
    /\ spectatorRooms' = spectatorRooms \ {a}
    /\ sent' = adminBroadcastSpectatorCount(room.spectators \ {a},
                                            spectatorRooms \ {a})
    /\ UNCHANGED << game, leaked, connected, ioRoom, ioSpectate,
                    spectateRoomCode, gamesStarted >>
    /\ UNCHANGED << dataDir, writeQueues >>
    /\ UNCHANGED << now, danmakuCooldowns, delivered, ioSpectateLower >>

\* disconnect of a connection of the /admin namespace
AdminDisconnect(a) ==
    /\ a \in connected
    /\ a \in Admins
    /\ connected' = connected \ {a}
    /\ IF a \in spectatorRooms
         THEN /\ room' = IF room.inRegistry
                           THEN [room EXCEPT !.spectators = @ \ {a}]
                           ELSE room
              /\ spectatorRooms' = spectatorRooms \ {a}
              /\ sent' = adminBroadcastSpectatorCount(room.spectators \ {a},
                                                      spectatorRooms \ {a})
         ELSE /\ sent' = <<>>
              /\ UNCHANGED << room, spectatorRooms >>
    /\ UNCHANGED << game, leaked, ioRoom, ioSpectate, spectateRoomCode,
                    gamesStarted >>
    /\ UNCHANGED << dataDir, writeQueues >>
    /\ UNCHANGED << now, danmakuCooldowns, delivered, ioSpectateLower >>

\* The handshakes of the /admin namespace: those of the connections of
\* Admins and one that carries a token verifyToken rejects.
Handshakes == Admins \cup {"x"}

\* socket.handshake.auth.token of each handshake: a signed token, no token,
\* a token that is not a valid signature.
handshakeToken == [ a |-> "valid", u |-> "none", x |-> "bad" ]

\* A verification that accepts every token.
verifyToken_any(token) == TRUE

\* verifyToken(token) # null: jwt.verify against the secret succeeds.
verifyToken(token) == token = "valid"

\* The middleware of the namespace: next() or next(new Error(..)), and the
\* socket.isAuthenticated it leaves.
adminMiddleware(token) ==
    IF token = "none"
      THEN [accepted |-> TRUE, isAuthenticated |-> FALSE]
    ELSE IF verifyToken(token)
      THEN [accepted |-> TRUE, isAuthenticated |-> TRUE]
    ELSE [accepted |-> FALSE, isAuthenticated |-> FALSE]

\* A handshake on the /admin namespace: the middleware admits the
\* connection or refuses it with a connect_error.
AdminConnect(a) ==
    /\ a \notin connected
    /\ IF adminMiddleware(handshakeToken[a]).accepted
         THEN /\ connected' = connected \cup {a}
              /\ sent' = <<>>
         ELSE /\ connected' = connected
              /\ sent' = <<Emit(a, "connect_error", [error |-> "auth_failed"])>>
    /\ UNCHANGED << room, game, leaked, ioRoom, ioSpectate, spectateRoomCode,
                    gamesStarted, spectatorRooms >>
    /\ UNCHANGED << dataDir, writeQueues >>
    /\ UNCHANGED << now, danmakuCooldowns, delivered, ioSpectateLower >>

\* ------------------------------------------------------------------------
\* Chat (socketHandler)
\* ------------------------------------------------------------------------
\* The room codes a send_danmaku carries: the code of the room and a code no
\* room has.
RoomCodes == {"ROOM", "NONE"}

\* The messages a send_danmaku carries.
Messages == {"", " ", "hi"}

\* message.trim()
trim(message) == IF message = " " THEN "" ELSE message

\* now - lastSendTime < DANMAKU_COOLDOWN_MS
underCooldown(c) == now - danmakuCooldowns[c] < DANMAKU_COOLDOWN_MS

\* danmakuData
danmakuData(c, message) ==
    [ id |-> <<c, now>>, from |-> c, message |-> trim(message),
      timestamp |-> now ]

\* send_danmaku {roomCode, message}
SendDanmaku(c, roomCode, message) ==
    /\ c \in connected
    /\ IF toUpperCase(roomCode) # "ROOM" \/ ~getRoomByCode
         THEN /\ sent' = <<>>
              /\ UNCHANGED << danmakuCooldowns, delivered, dataDir >>
       ELSE IF underCooldown(c)
         THEN /\ sent' = <<>>
              /\ UNCHANGED << danmakuCooldowns, delivered, dataDir >>
       ELSE IF trim(message) = ""
         THEN /\ danmakuCooldowns' = [danmakuCooldowns EXCEPT ![c] = now]
              /\ sent' = <<>>
              /\ UNCHANGED << delivered, dataDir >>
       ELSE /\ danmakuCooldowns' = [danmakuCooldowns EXCEPT ![c] = now]
            /\ delivered' = [delivered EXCEPT ![c] = now]
            /\ IF roomCode = "ROOM"
                 THEN journal(<<Call("recordMessage", danmakuData(c, message))>>)
                 ELSE UNCHANGED dataDir
            /\ sent' = BroadcastTo(roomCode, "danmaku", danmakuData(c, message))
    /\ UNCHANGED << room, game, leaked, connected, ioRoom, ioSpectate,
                    spectateRoomCode, gamesStarted, spectatorRooms,
                    writeQueues, now, ioSpectateLower >>

\* ------------------------------------------------------------------------
\* The clock and the idle sweep (roomManager)
\* ------------------------------------------------------------------------
\* Time passes.
Advance ==
    /\ now < DANMAKU_COOLDOWN_MS + MaxClockSteps * ClockStep
    /\ now' = now + ClockStep
    /\ UNCHANGED << room, game, leaked, connected, ioRoom, ioSpectate,
                    spectateRoomCode, gamesStarted, spectatorRooms, dataDir,
                    writeQueues, danmakuCooldowns, delivered,
                    ioSpectateLower, sent >>

\* A sweep that deletes every room that is old enough.
cleanupIdleRooms_anyState(r) ==
    IF r.inRegistry /\ now - r.createdAt > IdleTimeout
      THEN [r EXCEPT !.inRegistry = FALSE]
      ELSE r

\* cleanupIdleRooms(): the room r after the sweep
cleanupIdleRooms(r) ==
    IF r.inRegistry /\ now - r.createdAt > IdleTimeout /\ r.gameState # "playing"
      THEN [r EXCEPT !.inRegistry = FALSE]
      ELSE r

\* One firing of setInterval(cleanupIdleRooms, ...)
CleanupIdleRooms ==
    /\ room' = cleanupIdleRooms(room)
    /\ sent' = <<>>
    /\ UNCHANGED << game, leaked, connected, ioRoom, ioSpectate,
                    spectateRoomCode, gamesStarted, spectatorRooms, dataDir,
                    writeQueues, now, danmakuCooldowns, delivered, ioSpectateLower >>

\* ------------------------------------------------------------------------
\* Room journal (roomHistory): the write queue
\* ------------------------------------------------------------------------
\* The exported functions a caller of the journal uses in SpecJournal.
JournalFns ==
    { "initRoomHistory", "recordMessage", "recordGameStart", "recordGameMove",
      "archiveRoomHistory" }

\* Every call chains to a promise that is resolved already.
currentQueue_resolved == Resolved

\* writeQueues.get(roomCode) || Promise.resolve(): the promise the next write
\* operation is chained to.
currentQueue == writeQueues.entry

\* The promise k has settled: its write operation has run.
Settled(k) ==
    IF k = Resolved THEN TRUE ELSE writeQueues.promises[k].state # "pending"

gameVars == << room, game, leaked, connected, ioRoom, ioSpectate,
               spectateRoomCode, gamesStarted, spectatorRooms, now,
               danmakuCooldowns, delivered, ioSpectateLower, sent >>

\* queueWrite(roomCode, writeOperation), called by the exported function fn:
\* newQueue is chained to currentQueue and becomes the entry of the room.
\* The argument of the call is the number of the call.
QueueWrite(fn) ==
    /\ Len(writeQueues.promises) < MaxCalls
    /\ LET id == Len(writeQueues.promises) + 1
       IN  writeQueues' =
             [ promises |-> Append(writeQueues.promises,
                                   [ call |-> Call(fn, id),
                                     after |-> currentQueue,
                                     state |-> "pending" ]),
               entry |-> id ]
    /\ UNCHANGED << dataDir, gameVars >>

\* The then-callback of promise k: its write operation runs, from its read
\* to its write, once the promise it is chained to has settled.
RunWrite(k) ==
    /\ k \in DOMAIN writeQueues.promises
    /\ writeQueues.promises[k].state = "pending"
    /\ Settled(writeQueues.promises[k].after)
    /\ dataDir' = writeOperation(dataDir, writeQueues.promises[k].call)
    /\ writeQueues' = [writeQueues EXCEPT !.promises[k].state = "fulfilled"]
    /\ UNCHANGED gameVars

\* The write operation of the call gets to fs.writeFileSync: it creates the
\* file or found the file to update.
reachesWrite(d, call) == call.fn = "initRoomHistory" \/ d.rooms.exists

\* The then-callback of promise k when fs.writeFileSync throws: the file is
\* as it was, the catch-callback logs the error and newQueue is fulfilled.
FailWrite(k) ==
    /\ k \in DOMAIN writeQueues.promises
    /\ writeQueues.promises[k].state = "pending"
    /\ Settled(writeQueues.promises[k].after)
    /\ reachesWrite(dataDir, writeQueues.promises[k].call)
    /\ writeQueues' = [writeQueues EXCEPT !.promises[k].state = "failed"]
    /\ UNCHANGED << dataDir, gameVars >>

\* A cleanup that deletes the entry of the room whichever promise it holds.
Cleanup_anyEntry(k) ==
    /\ k \in DOMAIN writeQueues.promises
    /\ writeQueues.promises[k].state \in {"fulfilled", "failed"}
    /\ writeQueues' =
         [ writeQueues EXCEPT !.promises[k].state = "cleaned",
                              !.entry = Resolved ]
    /\ UNCHANGED << dataDir, gameVars >>

\* The finally-callback of promise k: the entry of the room is deleted when
\* it still is promise k.
Cleanup(k) ==
    /\ k \in DOMAIN writeQueues.promises
    /\ writeQueues.promises[k].state \in {"fulfilled", "failed"}
    /\ writeQueues' =
         [ writeQueues EXCEPT !.promises[k].state = "cleaned",
                              !.entry = IF @ = k THEN Resolved ELSE @ ]
    /\ UNCHANGED << dataDir, gameVars >>

\* ------------------------------------------------------------------------
\* Specification
\* ------------------------------------------------------------------------
\* The coordinates a reveal_tile carries: every cell of the largest grid and
\* one value out of bounds.
Coords == 0 .. MaxGridSize

\* Play and restart: the two players and a connection in no room issue the
\* game requests; the tickers fire.
Next ==
    \/ \E c \in Joiners : JoinRoom(c)
    \/ \E c \in Conns, x \in Coords, z \in Coords : RevealTile(c, x, z)
    \/ \E c \in Conns : PassTurn(c)
    \/ Tick
    \/ \E t \in 1 .. TurnLimit : LeakedTick(t)
    \/ \E c \in Conns : RequestRestart(c)
    \/ \E c \in Conns : AcceptRestart(c)

Spec == Init /\ [][Next]_vars

\* Play, public spectating and disconnection: every connection may watch the
\* room and may go away.
NextWatch ==
    \/ \E c \in Joiners : JoinRoom(c)
    \/ \E c \in Conns, x \in Coords, z \in Coords : RevealTile(c, x, z)
    \/ \E c \in Conns : PassTurn(c)
    \/ Tick
    \/ \E c \in Conns : PublicSpectate(c)
    \/ \E c \in Conns : LeaveSpectate(c)
    \/ \E c \in Conns : Disconnect(c)

SpecWatch == Init /\ [][NextWatch]_vars

\* Play with both spectator audiences: public spectators and the connections
\* of the /admin namespace come and go while the game runs, and the
\* other connections may go away.
NextAdmin ==
    \/ \E c \in Joiners : JoinRoom(c)
    \/ \E c \in Conns, x \in Coords, z \in Coords : RevealTile(c, x, z)
    \/ \E c \in Conns : PassTurn(c)
    \/ Tick
    \/ \E c \in Watchers : PublicSpectate(c)
    \/ \E a \in Admins : AdminSpectate(a)
    \/ \E a \in Admins : AdminLeaveSpectate(a)
    \/ \E a \in Authenticated : AdminDisconnect(a)
    \/ \E c \in Conns \ Watchers : Disconnect(c)

SpecAdmin == Init /\ [][NextAdmin]_vars

\* Chat while time passes: the players, a public spectator and an admin
\* spectator are the audiences.
NextChat ==
    \/ \E c \in Joiners : JoinRoom(c)
    \/ \E c \in Watchers : PublicSpectate(c)
    \/ \E a \in Authenticated : AdminSpectate(a)
    \/ \E c \in Conns, rc \in RoomCodes, m \in Messages : SendDanmaku(c, rc, m)
    \/ Advance

SpecChat == Init /\ [][NextChat]_vars

\* Requests that spell the code of the room in either case: spectators and
\* chat senders use the canonical code or its lower-case variant.
NextCase ==
    \/ \E c \in Joiners : JoinRoom(c)
    \/ \E c \in Watchers : PublicSpectate(c)
    \/ \E c \in Watchers : PublicSpectateLower(c)
    \/ \E a \in Authenticated : AdminSpectate(a)
    \/ \E c \in Conns, rc \in CodeVariants : SendDanmaku(c, rc, "hi")
    \/ Advance

SpecCase == Init /\ [][NextCase]_vars

\* The /admin namespace: connections come through the handshake, spectate
\* and go while a game is played.
NextHandshake ==
    \/ \E a \in Handshakes : AdminConnect(a)
    \/ \E a \in Admins : AdminDisconnect(a)
    \/ \E a \in Admins : AdminSpectate(a)
    \/ \E a \in Admins : AdminLeaveSpectate(a)
    \/ \E c \in Joiners : JoinRoom(c)
    \/ \E c \in Conns, x \in Coords, z \in Coords : RevealTile(c, x, z)

SpecHandshake == Init /\ [][NextHandshake]_vars

\* Play while time passes and the idle sweep fires.
NextSweep ==
    \/ \E c \in Joiners : JoinRoom(c)
    \/ \E c \in Conns, x \in Coords, z \in Coords : RevealTile(c, x, z)
    \/ \E c \in Conns : PassTurn(c)
    \/ Tick
    \/ Advance
    \/ CleanupIdleRooms

SpecSweep == Init /\ [][NextSweep]_vars

\* The journal of the room under any calls of its exported functions: the
\* calls are made, and the callbacks of their promises run, in any
\* interleaving.
NextJournal ==
    \/ \E fn \in JournalFns : QueueWrite(fn)
    \/ \E k \in 1 .. MaxCalls : RunWrite(k)
    \/ \E k \in 1 .. MaxCalls : Cleanup(k)

SpecJournal == Init /\ [][NextJournal]_vars

\* The journal when a write to the disk may fail.  The callbacks of a
\* promise are microtasks: one that can run does run, which the fairness
\* conditions state.
NextJournalFail ==
    \/ \E fn \in {"initRoomHistory", "recordMessage"} : QueueWrite(fn)
    \/ \E k \in 1 .. MaxCalls : RunWrite(k)
    \/ \E k \in 1 .. MaxCalls : FailWrite(k)
    \/ \E k \in 1 .. MaxCalls : Cleanup(k)

SpecJournalFail ==
    /\ Init
    /\ [][NextJournalFail]_vars
    /\ WF_vars(\E k \in 1 .. MaxCalls : RunWrite(k))
    /\ WF_vars(\E k \in 1 .. MaxCalls : Cleanup(k))

\* ------------------------------------------------------------------------
\* Properties
\* ------------------------------------------------------------------------
\* The other of the two roles.
OtherRole(player) == CHOOSE q \in Roles : q # player

\* The message sequence s holds an event named ev.
HasEvent(s, ev) == \E i \in DOMAIN s : s[i].ev = ev

\* The mines of the installed grid.
MinesOf(e) == { c \in DOMAIN e.grid : e.grid[c].isMine }

\* The last request of connection c was refused: one error message to c and
\* neither the engine, the room nor the tickers changed.
RefusedFor(c) ==
    /\ game' = game
    /\ room' = room
    /\ leaked' = leaked
    /\ Len(sent') = 1
    /\ sent'[1].ev = "error"
    /\ sent'[1].to = {c}

\* C1: while the game is playing, a reveal_tile or pass_turn of a connection
\* whose role is not currentPlayer (the other player, a spectator or a
\* connection in no room) is rejected and leaves the engine (grid,
\* currentPlayer, revealsThisTurn, totalRevealed, scores, lastPassedBy,
\* status, timer) and the room as they were.
C1_NotCurrentRejected ==
    [][ \A c \in Conns :
          (game.gameStatus = "playing" /\ getPlayerRole(c) # game.currentPlayer)
            => /\ PassTurn(c) => RefusedFor(c)
               /\ \A x \in Coords, z \in Coords :
                    RevealTile(c, x, z) => RefusedFor(c) ]_vars

\* A playing game with tiles revealed in which the player whose turn it is
\* not has just been told that it is not their turn.
C1_Witness ==
    /\ game.gameStatus = "playing"
    /\ game.totalRevealed > 0
    /\ \E c \in Conns :
         /\ getPlayerRole(c) = OtherRole(game.currentPlayer)
         /\ sent = <<Emit(c, "error", [error |-> "not_your_turn"])>>

\* C2: the mines of a game are placed in the step of its first accepted
\* reveal and in no other step; that reveal does not hit a mine, and no tile
\* of the grid within one row and one column of the clicked tile is a mine.
C2_FirstRevealSafe ==
    [][ /\ ~game.minesPlaced => MinesOf(game) = {}
        /\ (game.isFirstMove /\ ~game'.isFirstMove)
             => (~game.minesPlaced /\ game'.minesPlaced)
        /\ (~game.minesPlaced /\ game'.minesPlaced)
             => /\ game.isFirstMove /\ ~game'.isFirstMove
                /\ sent'[1].ev = "tile_revealed"
                /\ ~sent'[1].p.hitMine
                /\ game'.grid[<<sent'[1].p.x, sent'[1].p.z>>].isRevealed
                /\ \A c \in DOMAIN game'.grid :
                     ( c[1] - sent'[1].p.x \in {-1, 0, 1}
                       /\ c[2] - sent'[1].p.z \in {-1, 0, 1} )
                       => ~game'.grid[c].isMine
        /\ (game.minesPlaced /\ game'.minesPlaced /\ gamesStarted' = gamesStarted)
             => MinesOf(game') = MinesOf(game) ]_vars

\* The first reveal of a game has just been accepted and the grid holds a
\* mine.
C2_Witness ==
    /\ game.gameStatus = "playing"
    /\ sent # <<>>
    /\ sent[1].ev = "tile_revealed"
    /\ sent[1].p.timerStarted
    /\ MinesOf(game) # {}

\* The connections that are the players of the room.
PlayerConns == {room.host, room.guest} \ {Null}

\* The messages of the last handler that reached a player connection.
ToAPlayer == { i \in DOMAIN sent : sent[i].to \cap PlayerConns # {} }

\* The grid snapshot a message carries (none: the empty grid).
SnapshotOf(m) ==
    IF m.ev = "game_start" THEN m.p.grid
    ELSE IF m.ev = "spectate_joined" THEN m.p.game.grid
    ELSE << >>

\* The tiles of a snapshot that are not revealed and yet carry isMine and
\* neighborMines.
UnmaskedHidden(m) ==
    { c \in DOMAIN SnapshotOf(m) :
        SnapshotOf(m)[c].hasInfo /\ ~SnapshotOf(m)[c].isRevealed }

\* The tile records of a tile_revealed message are tiles revealed in the
\* grid.
OnlyRevealedTiles(m) ==
    m.ev = "tile_revealed"
      => \A j \in DOMAIN m.p.revealedTiles :
           game.grid[<<m.p.revealedTiles[j].x, m.p.revealedTiles[j].z>>].isRevealed

\* Mine positions are carried by game_over only, and the game has ended.
MinesOnlyAtEnd(m) ==
    ("allMines" \in DOMAIN m.p /\ m.p.allMines # {})
      => (m.ev = "game_over" /\ game.gameStatus = "finished")

MinesRevealedNow ==
    { c \in DOMAIN game.grid :
        /\ ~game.grid[c].isRevealed
        /\ game'.grid[c].isRevealed
        /\ game'.grid[c].isMine }

\* A mine is revealed while the engine is playing.
LiveRevealedMine(e) ==
    /\ e.gameStatus = "playing"
    /\ \E c \in DOMAIN e.grid : e.grid[c].isMine /\ e.grid[c].isRevealed

\* The players are told of a game over with this winner, loser and reason.
GameOverToPlayers(s, winner, loser, reason) ==
    \E i \in DOMAIN s :
        /\ s[i].ev = "game_over"
        /\ s[i].aud = "players"
        /\ s[i].p.winner = winner
        /\ s[i].p.loser = loser
        /\ s[i].p.reason = reason

\* C4: the step in which the current player reveals a mine ends the game:
\* status finished, winner the opponent, loser the revealing player, timer
\* stopped; in no state is a mine revealed while the status is playing.
C4_MineHitEndsGame ==
    [][ /\ ~LiveRevealedMine(game)
        /\ ~LiveRevealedMine(game')
        /\ MinesRevealedNow # {}
             => /\ game'.gameStatus = "finished"
                /\ game'.winner = OtherRole(game.currentPlayer)
                /\ ~game'.turnTimer
                /\ GameOverToPlayers(sent', OtherRole(game.currentPlayer),
                                     game.currentPlayer, "hit_mine") ]_vars

\* A game that has just ended on a revealed mine.
C4_Witness ==
    /\ game.gameStatus = "finished"
    /\ \E c \in DOMAIN game.grid : game.grid[c].isMine /\ game.grid[c].isRevealed
    /\ HasEvent(sent, "tile_revealed")
    /\ HasEvent(sent, "game_over")

\* The engine after an accepted pass of `player`.
AfterPass(e, player) ==
    [ e EXCEPT !.lastPassedBy = player,
               !.currentPlayer = OtherRole(player),
               !.revealsThisTurn = 0,
               !.timeRemaining = e.turnTimeLimit,
               !.turnTimer = TRUE ]

\* C5: a pass_turn of the current player is accepted exactly when the game
\* is playing and revealsThisTurn >= MIN_REVEALS_TO_PASS; accepted, it sets
\* lastPassedBy to the player, swaps currentPlayer, sets revealsThisTurn to 0
\* and timeRemaining to turnTimeLimit and changes nothing else; rejected, it
\* changes nothing.
C5_PassTurn ==
    [][ \A c \in Conns :
          ( PassTurn(c) /\ getRoomBySocketId(c) /\ HasGame
            /\ getPlayerRole(c) = game.currentPlayer )
            => IF game.gameStatus = "playing"
                    /\ game.revealsThisTurn >= MIN_REVEALS_TO_PASS
                 THEN /\ game' = AfterPass(game, game.currentPlayer)
                      /\ room' = room
                      /\ \E i \in DOMAIN sent' :
                           /\ sent'[i].ev = "turn_changed"
                           /\ sent'[i].aud = "players"
                           /\ sent'[i].p.currentPlayer = game'.currentPlayer
                 ELSE RefusedFor(c) ]_vars

\* A pass has just been accepted.
C5_Witness ==
    /\ game.gameStatus = "playing"
    /\ game.revealsThisTurn = 0
    /\ game.lastPassedBy = OtherRole(game.currentPlayer)
    /\ game.timeRemaining = game.turnTimeLimit
    /\ \E i \in DOMAIN sent :
         sent[i].ev = "turn_changed" /\ sent[i].p.reason = Null

\* The step is the firing of the installed engine's ticker that brings
\* timeRemaining to 0 while the game is playing.
TimerExpires ==
    /\ game.gameStatus = "playing"
    /\ game.turnTimer
    /\ game.timeRemaining <= 1
    /\ Tick

\* The players are told of the event ev with this turn-change reason.
ToldPlayers(s, ev, field, value) ==
    \E i \in DOMAIN s :
        /\ s[i].ev = ev
        /\ s[i].aud = "players"
        /\ s[i].p[field] = value

C7_AllSafeIffExact ==
    (sent # <<>> /\ sent[1].ev = "tile_revealed")
      => ( (\E i \in DOMAIN sent :
              sent[i].ev = "game_over" /\ sent[i].p.reason = "all_safe_revealed")
           <=> ( game.totalRevealed
                   = game.gridSize * game.gridSize - game.minesCount
                 /\ ~sent[1].p.hitMine ) )

\* C8 as stated: totalRevealed <= gridSize^2 - minesCount in every state of
\* the engine.
C8_TotalRevealedBound ==
    HasGame => game.totalRevealed <= game.gridSize * game.gridSize - game.minesCount

\* C9 as stated: once placeMines has run, the grid holds minesCount mines.
C9_MineCount ==
    game.minesPlaced => Cardinality(MinesOf(game)) = game.minesCount

\* C10 as stated: from the start of a game to its first accepted reveal no
\* timer runs: no timer_update is emitted, the game does not end, and the
\* engine's countdown has not begun.
C10_NoTimerBeforeFirstReveal ==
    (HasGame /\ game.isFirstMove)
      => /\ ~HasEvent(sent, "timer_update")
         /\ game.gameStatus = "playing"
         /\ ~game.turnTimer
         /\ game.timeRemaining = NullTime

\* The roles connection c holds in the room.
RolesOf(c) ==
    { r \in {"host", "guest", "public spectator", "admin spectator"} :
        \/ r = "host" /\ room.inRegistry /\ room.host = c
        \/ r = "guest" /\ room.inRegistry /\ room.guest = c
        \/ r = "public spectator" /\ room.inRegistry /\ c \in ioSpectate
        \/ r = "admin spectator" /\ c \in AdminSpectators }

\* C11 as stated: a connection that is a member of the room holds exactly one
\* of the roles host, guest, public spectator, admin spectator.
C11_OneRole ==
    \A c \in Conns : Cardinality(RolesOf(c)) <= 1

\* The reasons of a natural game end.
NaturalReasons == {"hit_mine", "all_safe_revealed", "timeout_no_action"}

\* The room's game was forfeited by a disconnect: the room is finished while
\* its engine never reached a terminal.
ForfeitedGame ==
    HasGame /\ room.gameState = "finished" /\ game.gameStatus = "playing"

\* The match statistics with one more game, won by `winner`.
OneMoreGame(stats, winner) ==
    [ gamesPlayed |-> stats.gamesPlayed + 1,
      hostWins |-> IF winner = "host" THEN stats.hostWins + 1 ELSE stats.hostWins,
      guestWins |-> IF winner = "guest" THEN stats.guestWins + 1
                    ELSE stats.guestWins ]

\* C12 as stated: room.matchStats changes only in a step that ends a game
\* naturally (mine hit, all safe tiles revealed, timeout without action);
\* such a step adds one to gamesPlayed and one to the winner's wins; a game
\* forfeited by a disconnect never changes matchStats.
C12_MatchStatsNaturalOnly ==
    [][ /\ room'.matchStats # room.matchStats
             => /\ ~ForfeitedGame
                /\ \E i \in DOMAIN sent' :
                     /\ sent'[i].ev = "game_over"
                     /\ sent'[i].aud = "players"
                     /\ sent'[i].p.reason \in NaturalReasons
                     /\ room'.matchStats
                          = OneMoreGame(room.matchStats, sent'[i].p.winner)
        /\ (game.gameStatus = "playing" /\ game'.gameStatus = "finished"
            /\ gamesStarted' = gamesStarted)
             => room'.matchStats.gamesPlayed = room.matchStats.gamesPlayed + 1
      ]_vars

\* The winner of the natural game end the players are told of in s, or Null.
NaturalWinner(s) ==
    IF \E i \in DOMAIN s : /\ s[i].ev = "game_over"
                           /\ s[i].aud = "players"
                           /\ s[i].p.reason \in NaturalReasons
      THEN LET i == CHOOSE j \in DOMAIN s : /\ s[j].ev = "game_over"
                                            /\ s[j].aud = "players"
                                            /\ s[j].p.reason \in NaturalReasons
           IN  s[i].p.winner
      ELSE Null

Forfeited ==
    /\ HasGame
    /\ \/ room.inRegistry /\ room.guest = Null /\ room.gameState = "finished"
       \/ ~room.inRegistry /\ room.gameState = "playing"

\* The message sequence s tells connection c of the forfeit.
ToldOfForfeit(s, c) ==
    \E i \in DOMAIN s :
        /\ s[i].ev = "game_over"
        /\ s[i].to = {c}
        /\ s[i].p.reason = "opponent_disconnected"

\* C14 as stated: the disconnect of a player of a playing room forfeits the
\* game in that step: the engine's timer is stopped and the remaining player
\* is sent game_over with reason opponent_disconnected; from then on the
\* forfeited game accepts no reveal and no pass, runs no timer, and no
\* timer_update and no second game_over is emitted.
C14_ForfeitIsFinal ==
    [][ /\ \A c \in PlayerConns :
             ( Disconnect(c) /\ room.inRegistry /\ room.gameState = "playing" )
               => /\ Forfeited'
                  /\ ~game'.turnTimer
                  /\ \A d \in PlayerConns \ {c} :
                       d \in connected => ToldOfForfeit(sent', d)
        /\ Forfeited
             => /\ game' = game
                /\ ~game.turnTimer
                /\ ~HasEvent(sent', "tile_revealed")
                /\ ~HasEvent(sent', "turn_changed")
                /\ ~HasEvent(sent', "timer_update")
                /\ ~HasEvent(sent', "game_over") ]_vars

\* C20: joinRoom succeeds exactly when the room is in the registry, its state
\* is waiting and its guest slot is empty; a successful join installs the
\* caller as guest and changes nothing else, a failed one leaves the room as
\* it was. A join_room for a playing or finished room is answered with
\* redirect_to_spectate alone and changes neither the room nor its game.
C20_JoinRoom ==
    [][ /\ \A c \in Conns :
             /\ joinRoom(c).success
                  <=> ( room.inRegistry /\ room.gameState = "waiting"
                        /\ room.guest = Null )
             /\ joinRoom(c).success
                  => joinRoom(c).room = [room EXCEPT !.guest = c]
             /\ ~joinRoom(c).success => joinRoom(c).room = room
        /\ \A c \in Joiners :
             JoinRoom(c) =>
               /\ joinRoom(c).success
                    => /\ room'.guest = c
                       /\ room'.host = room.host
                       /\ room'.inRegistry
               /\ ~joinRoom(c).success => room' = room /\ game' = game
               /\ ( room.inRegistry /\ room.gameState \in {"playing", "finished"} )
                    => /\ Len(sent') = 1
                       /\ sent'[1].ev = "redirect_to_spectate"
                       /\ sent'[1].to = {c} ]_vars

C20_Witness ==
    /\ room.inRegistry
    /\ room.guest = "g"
    /\ room.gameState = "playing"
    /\ HasEvent(sent, "redirect_to_spectate")

\* Every tile of the grid snapshot g carries isMine and neighborMines.
GodView(g) == \A c \in DOMAIN g : g[c].hasInfo

\* The message m is a game_start to a spectator audience.
SpectatorGameStart(m) ==
    m.ev = "game_start" /\ m.aud \in {"admin", "spectators"}

\* The message m is the spectate_joined reply to a connection out of S, with
\* a game snapshot in it.
SpectateJoinedOf(m, S) ==
    m.ev = "spectate_joined" /\ m.to \subseteq S /\ m.p.hasGame

GameEvents ==
    { "game_start", "tile_revealed", "turn_changed", "timer_update",
      "timeout_action", "game_over" }

\* What a stream records of the message m: its event and its payload; the
\* grid of a game_start depends on the audience and is left out.
Item(m) ==
    [ ev |-> m.ev,
      p |-> IF m.ev = "game_start" THEN <<>> ELSE <<m.p>> ]

\* The game events of the message sequence s that go to the audiences A.
RECURSIVE StreamOf(_, _)
StreamOf(s, A) ==
    IF s = <<>> THEN <<>>
    ELSE (IF Head(s).ev \in GameEvents /\ Head(s).aud \in A
            THEN <<Item(Head(s))>> ELSE <<>>)
         \o StreamOf(Tail(s), A)

\* The message m is the game_over of a forfeit, sent to the remaining player.
ForfeitNotice(m) ==
    /\ m.ev = "game_over"
    /\ m.aud = "direct"
    /\ m.p.reason = "opponent_disconnected"

\* The messages at i+1 and i+2 of s mirror the message at i to the /admin
\* audience and to the public spectators, in this order.
MirroredAt(s, i) ==
    /\ i + 2 <= Len(s)
    /\ s[i + 1].aud = "admin"
    /\ s[i + 2].aud = "spectators"
    /\ Item(s[i + 1]) = Item(s[i])
    /\ Item(s[i + 2]) = Item(s[i])

\* C16 as stated: the game events a handler sends to the players are also
\* sent to the public spectators and to the admin spectators, in the same
\* order: the three streams are equal.
C16_StreamsEqual ==
    /\ StreamOf(sent, {"players", "direct"}) = StreamOf(sent, {"spectators"})
    /\ StreamOf(sent, {"players", "direct"}) = StreamOf(sent, {"admin"})

\* C16, amended: every game event emitted to the player audience of the room
\* is followed at once by the same event to the admin spectators and to the
\* public spectators, and the spectators get no other game event, but for
\* the forfeit: its game_over goes to the socket of the remaining player
\* alone; it is mirrored to the spectators when the guest left, and replaced
\* by room_closed, with no game_over for the spectators, when the host left.
C16_SpectatorsMirrorPlayers ==
    /\ \A i \in DOMAIN sent :
         ( sent[i].ev \in GameEvents /\ sent[i].aud = "players" )
           => MirroredAt(sent, i)
    /\ \A i \in DOMAIN sent :
         ( sent[i].ev \in GameEvents /\ sent[i].aud = "direct" )
           => /\ ForfeitNotice(sent[i])
              /\ sent[i].p.winner = "host" => MirroredAt(sent, i)
              /\ sent[i].p.winner = "guest"
                   => /\ StreamOf(sent, {"spectators", "admin"}) = <<>>
                      /\ i + 2 <= Len(sent)
                      /\ sent[i + 1].ev = "room_closed"
                      /\ sent[i + 1].aud = "admin"
                      /\ sent[i + 2].ev = "room_closed"
                      /\ sent[i + 2].aud = "spectators"
    /\ ~(\E i \in DOMAIN sent : sent[i].aud = "direct"
                                  /\ sent[i].ev \in GameEvents)
         => /\ StreamOf(sent, {"players"}) = StreamOf(sent, {"spectators"})
            /\ StreamOf(sent, {"players"}) = StreamOf(sent, {"admin"})

\* A reveal went to the two players, to an admin spectator and to a public
\* spectator.
C16_Witness ==
    \E i \in DOMAIN sent :
        /\ sent[i].ev = "tile_revealed"
        /\ sent[i].aud = "players"
        /\ Cardinality(sent[i].to) = 2
        /\ MirroredAt(sent, i)
        /\ sent[i + 1].to = {"a"}
        /\ sent[i + 2].to = {"s"}

\* The calls of the journal made so far, in the order they were made.
CallsMade ==
    [k \in DOMAIN writeQueues.promises |-> writeQueues.promises[k].call]

\* The number of write operations that have run.
WritesRun ==
    Cardinality({ k \in DOMAIN writeQueues.promises : Settled(k) })

\* C17: the write operations of a room run one at a time in the order of
\* their calls: the operations that have run are those of the first calls,
\* none runs before its predecessor has completed, and the files hold what
\* these operations, run one after the other, produce: no update is lost.
C17_WritesSerialized ==
    /\ \A k \in DOMAIN writeQueues.promises : Settled(k) => k <= WritesRun
    /\ dataDir = runAll(EmptyDataDir, SubSeq(CallsMade, 1, WritesRun))

\* Two messages were written to the journal the first call created, and a
\* later call waits.
C17_Witness ==
    /\ dataDir.rooms.exists
    /\ Len(dataDir.rooms.messages) = 2
    /\ WritesRun = 3
    /\ Len(writeQueues.promises) = 4

\* The move the message m tells the players of, as the journal records it;
\* <<>> when m tells of no move.
MoveOf(m) ==
    IF m.aud # "players" THEN <<>>
    ELSE IF m.ev = "tile_revealed"
      THEN << [ type |-> "reveal", player |-> m.p.player,
                x |-> m.p.x, z |-> m.p.z, hitMine |-> m.p.hitMine ] >>
    ELSE IF m.ev = "turn_changed"
      THEN << [ type |-> IF m.p.reason = Null THEN "pass" ELSE m.p.reason,
                player |-> m.p.previousPlayer ] >>
    ELSE <<>>

\* The moves the message sequence s broadcasts, in the order of s.
RECURSIVE MovesBroadcast(_)
MovesBroadcast(s) ==
    IF s = <<>> THEN <<>> ELSE MoveOf(Head(s)) \o MovesBroadcast(Tail(s))

\* The moves of the last game of the journal file of directory d.
CurrentMoves(d) == d.rooms.games[Len(d.rooms.games)].moves

\* C18 as stated: the journal file of the room holds the union of the journal
\* calls of the room: it exists, it has one entry in games for every game
\* started, and every handler appends the moves it broadcasts, in the order
\* of the broadcast, to the moves of the current game and writes no other
\* move.
C18_JournalHoldsCalls ==
    [][ /\ dataDir'.rooms.exists
        /\ Len(dataDir'.rooms.games) = gamesStarted'
        /\ gamesStarted' # gamesStarted => CurrentMoves(dataDir') = <<>>
        /\ ( gamesStarted' = gamesStarted /\ gamesStarted > 0 )
             => /\ dataDir.rooms.exists
                /\ Len(dataDir.rooms.games) = gamesStarted
                /\ CurrentMoves(dataDir')
                     = CurrentMoves(dataDir) \o MovesBroadcast(sent') ]_vars

\* The journal of the room was archived: the active file is gone and the
\* archive holds it, closed and with room_closed as its last event.
Archived(d) ==
    /\ ~d.rooms.exists
    /\ Len(d.archive) = 1
    /\ d.archive[1].closedAt
    /\ d.archive[1].events[Len(d.archive[1].events)].type = "room_closed"

\* C19 as stated: once the room is destroyed its journal is archived.
C19_DestroyedRoomArchived == ~room.inRegistry => Archived(dataDir)

\* The room is idle: it was created more than the idle timeout ago.
Idle(r) == now - r.createdAt > IdleTimeout

\* C21: the sweep deletes the room exactly when it was created more than the
\* idle timeout ago and its state is not playing, and changes nothing else of
\* it; a playing room survives the sweep whatever its age.
C21_SweepDeletesIdleRooms ==
    [][ CleanupIdleRooms =>
          /\ room.inRegistry
               => ( ~room'.inRegistry
                      <=> ( Idle(room) /\ room.gameState # "playing" ) )
          /\ room.gameState = "playing" => room' = room
          /\ room' \in {room, [room EXCEPT !.inRegistry = FALSE]}
          /\ game' = game ]_vars

\* The sweep left a playing room that was old enough alone, and deleted it
\* after its game had ended.
C21_Witness ==
    /\ ~room.inRegistry
    /\ room.gameState = "finished"
    /\ Idle(room)

\* The message sequence s broadcasts a chat message of connection c to the
\* players, the admin spectators and the public spectators.
ChatBroadcast(s, c) ==
    /\ Len(s) = 3
    /\ \A i \in 1 .. 3 : s[i].ev = "danmaku" /\ s[i].p.from = c
    /\ s[1].aud = "players"
    /\ s[2].aud = "admin"
    /\ s[3].aud = "spectators"

\* C22 as stated: a chat message of a connection is broadcast only if at
\* least DANMAKU_COOLDOWN_MS have passed since the last delivered chat of the
\* connection; a message sent earlier is dropped: no broadcast, no journal
\* entry, no change of the cooldown; a message with a text sent to the room
\* when the cooldown since the last delivered chat has passed is delivered to
\* the three audiences, whatever was dropped in between.
C22_ChatRateLimit ==
    [][ \A c \in Conns, rc \in RoomCodes, m \in Messages :
          SendDanmaku(c, rc, m) =>
            /\ HasEvent(sent', "danmaku")
                 => now - delivered[c] >= DANMAKU_COOLDOWN_MS
            /\ ( rc = "ROOM" /\ room.inRegistry
                 /\ now - delivered[c] < DANMAKU_COOLDOWN_MS )
                 => /\ sent' = <<>>
                    /\ dataDir' = dataDir
                    /\ danmakuCooldowns' = danmakuCooldowns
            /\ ( rc = "ROOM" /\ room.inRegistry /\ trim(m) # ""
                 /\ now - delivered[c] >= DANMAKU_COOLDOWN_MS )
                 => ChatBroadcast(sent', c) ]_vars


\* The send_danmaku intent fails validation: its room code names no room of
\* the registry or its message is empty once trimmed.
FailsValidation(rc, m) ==
    rc # "ROOM" \/ ~room.inRegistry \/ trim(m) = ""

\* C23: a send_danmaku intent that fails validation (unknown room code,
\* empty chat message) changes no server state: the room registry, the
\* engine, the journal and the chat cooldown table are exactly as before and
\* nothing is emitted, so a valid chat sent right after a rejected empty one
\* is still delivered.
C23_InvalidIntentNoChange ==
    [][ \A c \in Conns, rc \in RoomCodes, m \in Messages :
          ( SendDanmaku(c, rc, m) /\ FailsValidation(rc, m) ) =>
            /\ room' = room
            /\ game' = game
            /\ dataDir' = dataDir
            /\ danmakuCooldowns' = danmakuCooldowns ]_vars


\* The engine refuses revealTile(x, z) of the player whose turn it is: the
\* game is not playing, the coordinates are off the grid or the tile is
\* already revealed.
RevealRefused(e, x, z) ==
    IF e.gameStatus # "playing" THEN TRUE
    ELSE IF ~InBounds(e.gridSize, x, z) THEN TRUE
    ELSE e.grid[<<x, z>>].isRevealed

\* The engine refuses passTurn of the player whose turn it is: the game is
\* not playing or the turn has fewer than MIN_REVEALS_TO_PASS reveals.
PassRefused(e) ==
    e.gameStatus # "playing" \/ e.revealsThisTurn < MIN_REVEALS_TO_PASS

\* The only message of the step is one error to connection c, and nothing
\* reached the journal.
OnlyErrorTo(c) ==
    /\ Len(sent') = 1
    /\ sent'[1].ev = "error"
    /\ sent'[1].aud = "direct"
    /\ sent'[1].to = {c}
    /\ dataDir' = dataDir

\* C24: a reveal_tile or pass_turn that the engine rejects (game not playing,
\* coordinates out of bounds, tile already revealed, fewer than
\* MIN_REVEALS_TO_PASS reveals in the turn) leaves the engine state
\* unchanged, no mines placed included; the rejection is reported to the
\* emitter alone as an error and nothing is broadcast or journaled.
C24_RejectedMoveNoChange ==
    [][ \A c \in Conns :
          ( getRoomBySocketId(c) /\ HasGame ) =>
            /\ \A x \in Coords, z \in Coords :
                 ( RevealRefused(game, x, z) /\ RevealTile(c, x, z) ) =>
                   /\ game' = game
                   /\ room' = room
                   /\ OnlyErrorTo(c)
            /\ ( PassRefused(game) /\ PassTurn(c) ) =>
                   /\ game' = game
                   /\ room' = room
                   /\ OnlyErrorTo(c) ]_vars

\* A first click off the grid was refused and no mines are placed.
C24_Witness ==
    /\ HasGame
    /\ game.gameStatus = "playing"
    /\ ~game.minesPlaced
    /\ \E c \in Conns : sent = <<Emit(c, "error", [error |-> "bad_coords"])>>


\* The step is an accepted reveal_tile: tile_revealed, which no other handler
\* emits, leads its messages and names the acting player.
RevealAccepted(s) == s # <<>> /\ s[1].ev = "tile_revealed"

\* C25: the first accepted reveal of a game adds 0 to both scores; every
\* later accepted reveal adds exactly 10 times the number of tiles of its
\* revealedTiles to the score of the acting player and leaves the score of
\* the opponent unchanged.
C25_RevealScore ==
    [][ RevealAccepted(sent') =>
            LET player == sent'[1].p.player
                count  == Len(sent'[1].p.revealedTiles)
            IN  IF game.totalRevealed = 0
                  THEN game'.scores = game.scores
                  ELSE /\ game'.scores[player] = game.scores[player] + 10 * count
                       /\ game'.scores[Opp(player)] = game.scores[Opp(player)] ]_vars

\* A reveal after the first click was accepted and scored.
C25_Witness ==
    /\ HasGame
    /\ RevealAccepted(sent)
    /\ game.scores[sent[1].p.player] > 0
    /\ game.scores[sent[1].p.player] = 10 * Len(sent[1].p.revealedTiles)


\* The number of safe (non-mine) tiles among the tiles of a revealedTiles.
SafeCount(tiles) == Cardinality({ i \in DOMAIN tiles : ~tiles[i].isMine })

\* C26: at every point of a game, its terminal state included, the score of
\* each player is 10 times the number of safe tiles revealed by the reveals
\* of that player, the tiles of the first click not counted.  Both sides are
\* 0 when a game starts, so the equality is kept exactly when every step
\* adds to the score of a player 10 times the safe tiles that the step
\* revealed for that player: none for the first click, a pass, a tick or a
\* restart, and those of revealedTiles for a later reveal.
C26_ScoreCountsSafeTiles ==
    [][ IF RevealAccepted(sent')
          THEN LET player == sent'[1].p.player
                   safe   == IF game.totalRevealed = 0 THEN 0
                             ELSE SafeCount(sent'[1].p.revealedTiles)
               IN  /\ game'.scores[player] = game.scores[player] + 10 * safe
                   /\ game'.scores[Opp(player)] = game.scores[Opp(player)]
          ELSE \/ game'.scores = game.scores
               \/ /\ game'.totalRevealed = 0
                  /\ game'.scores = [host |-> 0, guest |-> 0] ]_vars


\* The in-grid 8-neighbours of the tiles of S that are blank: not a mine and
\* with neighborMines = 0.
BlankNeighbours(grid, S) ==
    { t \in DOMAIN grid :
        \E s \in S : /\ ~grid[s].isMine
                     /\ grid[s].neighborMines = 0
                     /\ t # s
                     /\ t[1] - s[1] \in {-1, 0, 1}
                     /\ t[2] - s[2] \in {-1, 0, 1} }

\* The tiles that a path of 8-neighbour steps from the tiles of S reaches
\* when every tile it leaves is blank.
RECURSIVE ReachableFrom(_, _)
ReachableFrom(grid, S) ==
    IF BlankNeighbours(grid, S) \subseteq S
      THEN S
      ELSE ReachableFrom(grid, S \cup BlankNeighbours(grid, S))

\* The coordinates of the tiles of a revealedTiles.
TileCoords(tiles) == { <<tiles[i].x, tiles[i].z>> : i \in DOMAIN tiles }

\* C27: every tile of the revealedTiles of one revealTile call was unrevealed
\* before the call and is reachable from the clicked tile by a path of
\* 8-neighbour steps that passes only through non-mine tiles whose
\* neighborMines is 0; the list has no duplicates and the clicked tile is
\* its first element.
C27_RevealedTiles ==
    [][ RevealAccepted(sent') =>
          LET p     == sent'[1].p
              tiles == p.revealedTiles
          IN  /\ \A t \in TileCoords(tiles) : ~game.grid[t].isRevealed
              /\ TileCoords(tiles)
                   \subseteq ReachableFrom(game'.grid, {<<p.x, p.z>>})
              /\ Cardinality(TileCoords(tiles)) = Len(tiles)
              /\ <<tiles[1].x, tiles[1].z>> = <<p.x, p.z>>
              /\ \A i \in DOMAIN tiles :
                   /\ tiles[i].isMine = game'.grid[<<tiles[i].x, tiles[i].z>>].isMine
                   /\ game'.grid[<<tiles[i].x, tiles[i].z>>].isRevealed ]_vars

\* A reveal flooded from a blank tile to a numbered one, with a hidden tile
\* left on the grid.
C27_Witness ==
    /\ HasGame
    /\ RevealAccepted(sent)
    /\ Len(sent[1].p.revealedTiles) > 1
    /\ \E i \in DOMAIN sent[1].p.revealedTiles :
         sent[1].p.revealedTiles[i].neighborMines > 0
    /\ \E t \in DOMAIN game.grid : ~game.grid[t].isRevealed


\* The first message of s named ev.
FirstOf(s, ev) == s[CHOOSE i \in DOMAIN s : s[i].ev = ev]

\* The step ends the game by all_safe_revealed.
AllSafeEnd(s) ==
    /\ RevealAccepted(s)
    /\ HasEvent(s, "game_over")
    /\ FirstOf(s, "game_over").p.reason = "all_safe_revealed"

\* C28: when a game ends by all_safe_revealed, the winner is the player who
\* last transferred the turn (by a voluntary pass or by a timeout auto-pass)
\* if a transfer happened in that game, and otherwise the player who made
\* the final reveal.  lastPassedBy is the player of the last transfer of the
\* game: every turn_changed sets it to the player who gave the turn away, a
\* new game clears it and no other step changes it.
C28_AllSafeWinner ==
    [][ /\ IF HasEvent(sent', "turn_changed")
             THEN game'.lastPassedBy = FirstOf(sent', "turn_changed").p.previousPlayer
             ELSE \/ game'.lastPassedBy = game.lastPassedBy
                  \/ game'.lastPassedBy = Null /\ game'.totalRevealed = 0
        /\ AllSafeEnd(sent') =>
             LET player == sent'[1].p.player
                 winner == IF game.lastPassedBy # Null
                             THEN game.lastPassedBy
                             ELSE player
             IN  /\ game'.winner = winner
                 /\ room'.gameState = "finished"
                 /\ \A i \in DOMAIN sent' :
                      sent'[i].ev = "game_over" => sent'[i].p.winner = winner ]_vars

\* A game with a turn transfer ended by all_safe_revealed: the final reveal
\* was made by the player who received the turn, the winner is the other.
C28_Witness ==
    /\ AllSafeEnd(sent)
    /\ game.lastPassedBy # Null
    /\ game.winner = game.lastPassedBy
    /\ game.winner # sent[1].p.player


\* The handshake of a was refused: one connect_error to a and no connection.
HandshakeRefused(a) ==
    /\ a \notin connected'
    /\ sent' = <<Emit(a, "connect_error", [error |-> "auth_failed"])>>

NaturalEnd(s) ==
    HasEvent(s, "game_over") /\ FirstOf(s, "game_over").p.reason \in NaturalReasons

\* The engine as the call that ended the game returned it, which is the
\* engine at the time the handler broadcasts game_over: the result of
\* revealTile for a reveal, of handleTimeout for an expiry.
EngineAtGameOver ==
    IF RevealAccepted(sent')
      THEN revealTile(game, sent'[1].p.x, sent'[1].p.z, sent'[1].p.player,
                      MinesOf(game')).eng
      ELSE engineHandleTimeout(game).eng

\* C30: whenever a game ends naturally (mine hit, all safe tiles revealed,
\* timeout without action) its timer is stopped before the terminal game_over
\* is broadcast; in every state where the status of the engine is finished
\* its ticker is not running, and no timer_update of that game follows its
\* game_over: none after it among the messages of the step, and the ticker
\* of a finished engine never fires.
C30_TimerStoppedAtEnd ==
    [][ /\ NaturalEnd(sent') =>
             /\ EngineAtGameOver.gameStatus = "finished"
             /\ ~EngineAtGameOver.turnTimer
             /\ \A i, j \in DOMAIN sent' :
                  ( i < j /\ sent'[i].ev = "game_over" ) =>
                    sent'[j].ev # "timer_update"
        /\ game'.gameStatus = "finished" => ~game'.turnTimer
        /\ Tick => game.gameStatus # "finished" ]_vars

\* A mine hit ended the game: the engine is finished and has no ticker.
C30_Witness ==
    /\ NaturalEnd(sent)
    /\ FirstOf(sent, "game_over").p.reason = "hit_mine"
    /\ game.gameStatus = "finished"
    /\ ~game.turnTimer


\* The countdown tickers running for the room: the one of the installed
\* engine and those of the engines startGame replaced.
Tickers == (IF game.turnTimer THEN 1 ELSE 0) + BagCardinality(leaked)

\* C31: at any time at most one countdown ticker is running for the room,
\* over every interleaving of join, reveal, pass, tick, timeout and restart
\* events, and a timeout that fires always belongs to the engine installed
\* as room.game: no ticker of a replaced engine reaches its timeout.
C31_OneTicker ==
    [][ /\ Tickers' <= 1
        /\ \A t \in 1 .. TurnLimit : ~( t - 1 <= 0 /\ LeakedTick(t) ) ]_vars


\* A write of the room is queued and has not run.
WritePending ==
    \E k \in DOMAIN writeQueues.promises :
      writeQueues.promises[k].state = "pending"

\* Every write queued for the room has run, and one was queued.
AllWritesRun ==
    /\ writeQueues.promises # <<>>
    /\ ~WritePending

\* The state of promise k; "none" when no call k was made.
StateOf(k) ==
    IF k \in DOMAIN writeQueues.promises
      THEN writeQueues.promises[k].state
      ELSE "none"

\* C32: the write-queue table keeps an entry for the room only while a write
\* of the room is pending: the completion of an earlier write never removes
\* the entry while a later write is still queued (the entry then is the
\* promise of the last call), a failed write does not prevent the writes
\* that follow it from running (the next one can run and does run), and
\* once every queued write of the room has run the table has no entry for
\* it.
C32_QueueEntryLifetime ==
    /\ [][ /\ WritePending' => writeQueues'.entry = Len(writeQueues'.promises)
           /\ \A k \in 1 .. MaxCalls :
                ( StateOf(k) = "failed" /\ StateOf(k + 1) = "pending" )
                  => ENABLED RunWrite(k + 1) ]_vars
    /\ \A k \in 1 .. MaxCalls :
         ( StateOf(k) = "failed" /\ StateOf(k + 1) = "pending" )
           ~> ( StateOf(k + 1) # "pending" )
    /\ AllWritesRun ~> ( writeQueues.entry = Resolved )

\* A write failed, the write queued after it ran and added a message to the
\* journal, every write has run and the table has no entry any more.
C32_Witness ==
    /\ \E k \in DOMAIN writeQueues.promises :
         /\ writeQueues.promises[k].state = "failed"
         /\ k + 1 \in DOMAIN writeQueues.promises
         /\ writeQueues.promises[k + 1].state = "cleaned"
         /\ writeQueues.promises[k + 1].call.fn = "recordMessage"
    /\ dataDir.rooms.exists
    /\ Len(dataDir.rooms.messages) > 0
    /\ AllWritesRun
    /\ writeQueues.entry = Resolved


\* The messages s deliver to connection c a spectator_count_update that
\* carries the count n.
GetsCount(s, c, n) ==
    \E i \in DOMAIN s : /\ s[i].ev = "spectator_count_update"
                        /\ c \in s[i].to
                        /\ s[i].p.count = n

\* C33: whenever a spectator joins, leaves or disconnects (the spectator set
\* of the room changes), a spectator_count_update carrying the current size
\* of the spectator set is delivered to the players of the room, to its
\* public spectators and to its admin spectators.
C33_SpectatorCountBroadcast ==
    [][ ( room'.inRegistry /\ room'.spectators # room.spectators ) =>
          \A c \in ioRoom' \cup ioSpectate' \cup spectatorRooms' :
            GetsCount(sent', c, Cardinality(room'.spectators)) ]_vars


\* The connections the messages s named ev go to.
ReachedBy(s, ev) ==
    UNION { s[i].to : i \in { j \in DOMAIN s : s[j].ev = ev } }

\* C34: room codes are handled case-insensitively end to end: a
\* public_spectate or send_danmaku given either spelling of the code of the
\* room acts on the room, and a spectator or chat sender who used the
\* lower-case spelling receives and reaches exactly the audiences one who
\* used the canonical code does: a chat that is delivered reaches the
\* players, every public spectator and every admin spectator of the room,
\* whichever spelling the sender and the spectators used.
C34_CodesCaseInsensitive ==
    [][ /\ \A c \in Conns, rc \in CodeVariants :
             ( SendDanmaku(c, rc, "hi") /\ room.inRegistry /\ ~underCooldown(c) ) =>
               ReachedBy(sent', "danmaku")
                 = ioRoom \cup spectateRoomCode \cup spectatorRooms
        /\ \A c \in Watchers :
             ( PublicSpectateLower(c) /\ room.inRegistry ) =>
               /\ c \in room'.spectators
               /\ c \in ReachedBy(sent', "spectate_joined") ]_vars


\* C35: a new game is started in the room (a new engine installed,
\* game_start broadcast) only when the room has no game in progress: an
\* accept_restart received while the state of the room is playing does not
\* replace the running engine.
C35_NoRestartWhilePlaying ==
    [][ /\ HasEvent(sent', "game_start") => room.gameState # "playing"
        /\ \A c \in Conns :
             ( AcceptRestart(c) /\ room.gameState = "playing" ) => game' = game ]_vars


\* The room, while it is in the registry, references connection c: as its
\* host, as its guest or in its spectator set.
References(r, c) ==
    r.inRegistry /\ ( r.host = c \/ r.guest = c \/ c \in r.spectators )

\* C36: after the disconnect of a connection has been handled no room
\* references the connection any more, neither as host, as guest nor in a
\* spectator set, whatever roles the connection had acquired before.
C36_DisconnectClearsReferences ==
    [][ \A c \in Conns : Disconnect(c) => ~References(room', c) ]_vars


\* Some message of s is a game_over whose reason is opponent_disconnected.
DisconnectGameOver(s) ==
    \E i \in 1 .. Len(s) :
        s[i].ev = "game_over" /\ s[i].p.reason = "opponent_disconnected"

\* C37: a game_over with reason opponent_disconnected is emitted only by the
\* disconnect of a player while the room's state is playing; the disconnect
\* of a player of a waiting or finished room emits no game_over.
C37_DisconnectGameOverOnlyWhilePlaying ==
    [][ DisconnectGameOver(sent') =>
          /\ room.gameState = "playing"
          /\ \E c \in {room.host, room.guest} : Disconnect(c) ]_vars


\* C38: in every state of a playing game lastPassedBy is null or the
\* opponent of currentPlayer; consequently, once a transfer has happened in
\* a game, the winner of its all_safe_revealed terminal is never the player
\* who made the final reveal.
C38_PasserIsOpponent ==
    /\ []( ( HasGame /\ game.gameStatus = "playing" ) =>
             ( game.lastPassedBy = Null
               \/ game.lastPassedBy = Opp(game.currentPlayer) ) )
    /\ [][ ( AllSafeEnd(sent') /\ game.lastPassedBy # Null ) =>
             /\ sent'[1].p.player = game.currentPlayer
             /\ game'.winner = Opp(sent'[1].p.player) ]_vars

\* A playing game after a transfer: the passer waits, the receiver has
\* revealed a tile of its turn.
C38_Witness ==
    /\ HasGame
    /\ game.gameStatus = "playing"
    /\ game.lastPassedBy = Opp(game.currentPlayer)
    /\ game.revealsThisTurn > 0
    /\ RevealAccepted(sent)
    /\ sent[1].p.player = game.currentPlayer


\* The tiles of the grid with isRevealed set.
RevealedCells(grid) == { c \in DOMAIN grid : grid[c].isRevealed }

\* Every revealed non-mine tile with neighborMines = 0 has all its in-grid
\* 8-neighbours revealed.
FloodClosed(grid) ==
    BlankNeighbours(grid, RevealedCells(grid)) \subseteq RevealedCells(grid)

\* C39: after every accepted reveal, every revealed non-mine tile with
\* neighborMines 0 has all its in-bounds 8-neighbours revealed, and
\* totalRevealed equals the number of tiles with isRevealed set.
C39_FloodClosedAndCounted ==
    [][ RevealAccepted(sent') =>
          /\ FloodClosed(game'.grid)
          /\ game'.totalRevealed = Cardinality(RevealedCells(game'.grid)) ]_vars

\* The first reveal of a game flooded from a blank tile: several tiles were
\* revealed by the one call, all of them counted, and some revealed tile is
\* blank.
C39_Witness ==
    /\ HasGame
    /\ RevealAccepted(sent)
    /\ Len(sent[1].p.revealedTiles) > 1
    /\ game.totalRevealed = Len(sent[1].p.revealedTiles)
    /\ \E c \in RevealedCells(game.grid) :
         ~game.grid[c].isMine /\ game.grid[c].neighborMines = 0


\* C40: whenever room.gameState is playing, the room has a non-null guest
\* and an installed engine whose status is playing; on every natural
\* terminal (mine hit, all safe tiles revealed, timeout without action)
\* room.gameState and the status of the engine become finished in the same
\* step.
C40_RoomAndEngineAgree ==
    /\ []( ( room.inRegistry /\ room.gameState = "playing" ) =>
             /\ room.guest # Null
             /\ HasGame
             /\ game.gameStatus = "playing" )
    /\ [][ /\ NaturalEnd(sent') =>
                /\ room.gameState = "playing" /\ game.gameStatus = "playing"
                /\ room'.gameState = "finished" /\ game'.gameStatus = "finished"
           /\ ( game.gameStatus = "playing" /\ game'.gameStatus = "finished" ) =>
                ( room.gameState = "playing" /\ room'.gameState = "finished" ) ]_vars

====
